---- MODULE Spec2Model ----
(***************************************************************************)
(* A model of the two accelerator games of rust-cade:                      *)
(*   - BoosterGame (src/src/games/booster.rs): the energy ramp, the phase  *)
(*     state machine, loss accounting, scoring and reset;                  *)
(*   - BeamGame (src/src/games/beam.rs): the ramp table of rate-limited    *)
(*     power-supply setpoints and its editing commands.                    *)
(*                                                                         *)
(* Numbers are fixed point.  The floating-point beam optics (transfer      *)
(* matrices, envelope, RF bucket, chromaticity) are not computed: what an  *)
(* applied element does to the beam is drawn, per tick, from the outcomes  *)
(* the loss checks of advance_beam distinguish (inside the loss zone,      *)
(* past the loss zone, past the aperture); likewise the bucket test of     *)
(* advance_longitudinal and the chromaticity quality of handle_transition. *)
(* The control flow around them is translated statement by statement.      *)
(***************************************************************************)
EXTENDS Integers, Sequences, FiniteSets, TLC

(***************************************************************************)
(* Bounds of the model (scaled-down sizes and exploration caps).           *)
(***************************************************************************)
\* booster.rs:10 NUM_SECTIONS = 24 cells, scaled down
NUM_CELLS == 2
\* booster.rs:66 TURNS_IN_CYCLE = 15000, scaled down
TURNS_IN_CYCLE == 156
\* booster.rs:813 the literal 500 of "TURNS_IN_CYCLE - 500", scaled with the cycle
EXTRACTION_MARGIN == 5
\* booster.rs:382 SimSpeed::Fast => 144 sub-steps per tick, scaled with the ring
STEPS_FAST == 24
\* loss added by an element whose beam edge lies past the loss zone
SoftLoss == 50
\* chromaticity quality of a badly corrected transition crossing
ChromBad == 24
\* bucket escapes explored per beam lifetime
MaxBucketEscapes == 1
\* corrector values explored, in steps of adjust_speed
MaxTrim == 1
\* a beam is re-injected after a reset only while best_turns is at most this
MaxReplayBest == 1

(***************************************************************************)
(* Program constants of booster.rs.                                        *)
(***************************************************************************)
ELEMENTS_PER_CELL == 6
MAX_LOSSES == 100
STEPS_SLOW == 4
STEPS_NORMAL == 14
\* kinetic energies and the proton mass in units of 1e-5 GeV
E_INJECTION_GEV == 40000
E_EXTRACTION_GEV == 800000
PROTON_MASS_GEV == 93827
\* gamma in units of 1e-3
GAMMA_TRANSITION == 5446
\* beam_progress in hundredths: the step 0.35 of advance_beam
PROGRESS_STEP == 35
\* the longitudinal loss of advance_longitudinal
LONGITUDINAL_LOSS == 2
TRANSITION_BONUS == 500
EXTRACTION_BONUS == 2000

\* ---- BeamGame (beam.rs) ----
\* bounds: the ring of BeamGame scaled from 24 sections (beam.rs 162), the goal
\* scaled from 5 turns (beam.rs 170), the step of the adjust keys at
\* construction scaled from 0.01 (beam.rs 320) so that a few presses reach
\* MAX_RAMP_DELTA, and the number of steps of a session in the Beam tab
NUM_SECTIONS == 5
GOAL_TURNS == 2
InitialSpeed == 30
MaxSteps == 4

\* program constants; powers are in units of 0.01
MAGNETS_PER_SECTION == 6
NUM_RAMPS == 10
MAX_RAMP_DELTA == 50
TOTAL_MAGNETS == NUM_SECTIONS * MAGNETS_PER_SECTION

Max(a, b) == IF a >= b THEN a ELSE b
Min(a, b) == IF a <= b THEN a ELSE b

Phases == {"Setup", "Injection", "EarlyRamp", "PreTransition", "Transition",
           "PostTransition", "Extraction", "Lost"}

\* The position classes the loss checks of advance_beam tell apart (display
\* units): 0 = beam edges inside the loss zone, 1 = an edge past LOSS_ZONE,
\* 2 = |x| or |y| past APERTURE_DISPLAY.
Zones == {0, 1, 2}

Speeds == {"Slow", "Normal", "Fast"}

VARIABLES
    \* ---- BoosterGame ----
    phase, beam_running, beam_lost, beam_losses, beam_intensity,
    beam_x, beam_cell, beam_element, beam_progress,
    ramp_turn, turns_completed, best_turns, transition_crossed,
    current_ke_gev, current_gamma,
    paused, sim_speed, input_mode,
    correctors, selected_cell, selected_corrector,
    \* bucket escapes counted in this beam lifetime (bounds the exploration)
    bucket_escapes,
    \* times the body of handle_transition (booster.rs 1036-1064) has run in
    \* this beam lifetime
    transition_kicks,
    \* ---- BeamGame ----
    ramp_powers, magnet_power, selected, selected_ramp, bump, adjust_speed,
    bg_paused, bg_beam_running, bg_beam_lost, beam_completed,
    bg_turns_completed, bg_best_turns,
    \* keys and ticks taken in the Beam tab (bounds the exploration)
    steps,
    \* the magnet, the checkpoint and the value of the last call of
    \* clamp_ramp_value, when the last step was an edit of one setpoint
    last_request,
    \* ---- App (app.rs 66) ----
    current_tab,
    \* ---- direct calls of the adjust functions ----
    \* an index expression of the call was out of bounds (the Rust panic)
    panicked,
    \* ---- two beams tracked side by side through BeamGame::apply_element ----
    \* the quadrupole powers and the trim step of the run, the element to apply
    \* next, and the horizontal orbit (twice the position, and the angle) of
    \* the beam with the bump and of the beam without it
    tr,
    \* ---- one beam followed at the three speeds of BoosterGame ----
    \* the physics of the beam (what each element and each turn completion
    \* does to it), the turn it starts at, and per speed the game and the
    \* number of sub-steps executed so far
    pace,
    \* ---- one beam followed sub-step by sub-step ----
    \* the game followed ("None" before the injection), the physics of the
    \* beam, the BoosterGame record, the BeamGame record and the functions
    \* that the last sub-step of BoosterGame called at the end of a turn
    sub,
    \* ---- the optics functions called on their own ----
    \* the function called last, the gradients and the sum of the trim
    \* quadrupoles of update_optics, the two tunes and the number of calls, the
    \* gradient and the matrix of Matrix2::focusing, and the turn and the
    \* kinetic energy of update_energy_for_turn
    optics,
    \* ---- two games of BeamGame with the same magnet settings ----
    \* what BeamGame::new drew for each game, and the beam of each
    scenario,
    \* ---- one element of BoosterGame applied to a drawn beam ----
    \* the game before the sub-step (tracker, beam, correctors, energy
    \* setting) and the beam after it
    kick,
    \* ---- the display buffers of a beam followed tick by tick ----
    bufs,
    \* ---- the high-score table and the name prompt of App ----
    hs

beamVars == <<ramp_powers, magnet_power, selected, selected_ramp, bump,
              adjust_speed, bg_paused, bg_beam_running, bg_beam_lost,
              beam_completed, bg_turns_completed, bg_best_turns, steps,
              last_request>>

boosterVars == <<phase, beam_running, beam_lost, beam_losses, beam_intensity,
                 beam_x, beam_cell, beam_element, beam_progress,
                 ramp_turn, turns_completed, best_turns, transition_crossed,
                 current_ke_gev, current_gamma,
                 paused, sim_speed, input_mode,
                 correctors, selected_cell, selected_corrector, bucket_escapes,
                 transition_kicks>>

callVars == <<panicked>>

trackVars == <<tr>>

paceVars == <<pace>>

subVars == <<sub>>

opticsVars == <<optics>>

scenarioVars == <<scenario>>

kickVars == <<kick>>

bufVars == <<bufs>>

scoreVars == <<hs>>

vars == <<current_tab, boosterVars, beamVars, callVars, trackVars, paceVars,
          subVars, opticsVars, scenarioVars, kickVars, bufVars, scoreVars>>

(***************************************************************************)
(* Energy ramp (booster.rs 461-463, 795-818).                              *)
(***************************************************************************)
\* 1 - cos(pi * turn / TURNS_IN_CYCLE) in units of 1e-4, with cos taken by
\* Bhaskara's rational approximation cos(pi f) ~ (1 - 4 f^2) / (1 + f^2) on
\* [0, 1/2] and cos(pi f) = -cos(pi (1 - f)) beyond; exact at f = 0, 1/2, 1.
OneMinusCos(turn) ==
    LET T == TURNS_IN_CYCLE
        s == T - turn
    IN  IF 2 * turn <= T
        THEN (5 * turn * turn * 10000) \div (T * T + turn * turn)
        ELSE IF s >= 0
             THEN ((2 * T * T - 3 * s * s) * 10000) \div (T * T + s * s)
             ELSE 20000

\* A variant of KineticEnergy with the cosine of 2 pi t_frac, a whole period;
\* the ramp of C28 comes back down to the injection energy under it.
KineticEnergy_full_period(turn) ==
    E_INJECTION_GEV
      + ((E_EXTRACTION_GEV - E_INJECTION_GEV) \div 20000)
          * OneMinusCos(IF 2 * turn <= TURNS_IN_CYCLE THEN 2 * turn
                        ELSE 2 * (TURNS_IN_CYCLE - turn))

\* ke = E_inj + 0.5 * (E_ext - E_inj) * (1 - cos(pi * t_frac))
KineticEnergy(turn) ==
    E_INJECTION_GEV
      + ((E_EXTRACTION_GEV - E_INJECTION_GEV) \div 20000) * OneMinusCos(turn)

kinetic_to_gamma(ke) == ((ke + PROTON_MASS_GEV) * 1000) \div PROTON_MASS_GEV

\* gamma / GAMMA_TRANSITION in units of 1e-4
GammaRatio(gamma) == (gamma * 10000) \div GAMMA_TRANSITION

(***************************************************************************)
(* The BoosterGame fields that update() and advance_beam() write, as one   *)
(* record, so that the sub-step loop is a function on it.                  *)
(***************************************************************************)
Game ==
    [phase |-> phase, beam_running |-> beam_running, beam_lost |-> beam_lost,
     beam_losses |-> beam_losses, beam_intensity |-> beam_intensity,
     beam_x |-> beam_x, beam_cell |-> beam_cell, beam_element |-> beam_element,
     beam_progress |-> beam_progress, ramp_turn |-> ramp_turn,
     turns_completed |-> turns_completed, best_turns |-> best_turns,
     transition_crossed |-> transition_crossed,
     current_ke_gev |-> current_ke_gev, current_gamma |-> current_gamma,
     bucket_escapes |-> bucket_escapes, transition_kicks |-> transition_kicks]

\* A variant of update_energy_for_turn that falls back to EarlyRamp above
\* transition; the phase order of C9 does not hold of it.
update_energy_backward(g) ==
    LET ke == KineticEnergy(g.ramp_turn)
        gamma == kinetic_to_gamma(ke)
        gamma_ratio == GammaRatio(gamma)
    IN  [g EXCEPT !.current_ke_gev = ke,
                  !.current_gamma = gamma,
                  !.phase = IF gamma_ratio < 8500 THEN "EarlyRamp"
                            ELSE IF gamma_ratio < 9700 THEN "PreTransition"
                            ELSE IF gamma_ratio < 10300 THEN "Transition"
                            ELSE "EarlyRamp"]

\* A variant of update_energy_for_turn with the first threshold at 0.90; the
\* phase table of C10 does not hold of it.
update_energy_late(g) ==
    LET ke == KineticEnergy(g.ramp_turn)
        gamma == kinetic_to_gamma(ke)
        gamma_ratio == GammaRatio(gamma)
    IN  [g EXCEPT !.current_ke_gev = ke,
                  !.current_gamma = gamma,
                  !.phase = IF gamma_ratio < 9000 THEN "EarlyRamp"
                            ELSE IF gamma_ratio < 9700 THEN "PreTransition"
                            ELSE IF gamma_ratio < 10300 THEN "Transition"
                            ELSE IF g.ramp_turn < TURNS_IN_CYCLE - EXTRACTION_MARGIN
                                 THEN "PostTransition"
                                 ELSE "Extraction"]

\* The calls made on a game that is followed call by call: such a game carries
\* the names of the functions called on it, in the order of the calls.
Log(g, name) ==
    IF "calls" \in DOMAIN g THEN [g EXCEPT !.calls = Append(@, name)] ELSE g

\* A variant of Push that removes the oldest entry only once the buffer is
\* two entries longer than cap; the bounds of C37 do not hold of it.
Push_late(g, buffer, entry, cap) ==
    IF buffer \in DOMAIN g
    THEN [g EXCEPT ![buffer] = IF Len(Append(@, entry)) > cap + 1
                               THEN Tail(Append(@, entry))
                               ELSE Append(@, entry)]
    ELSE g

\* The display buffers of a game that carries them: an entry is appended and
\* the oldest entry removed once the buffer is longer than cap (booster.rs
\* 1120-1123, 1132-1135, 1138-1145; beam.rs 456-459, 464-467).
Push(g, buffer, entry, cap) ==
    IF buffer \in DOMAIN g
    THEN [g EXCEPT ![buffer] = IF Len(Append(@, entry)) > cap
                               THEN Tail(Append(@, entry))
                               ELSE Append(@, entry)]
    ELSE g

\* booster.rs 61, and the literal 20 of booster.rs 1133 and beam.rs 465
MAX_HISTORY == 60
TURN_POSITIONS_KEPT == 20

\* booster.rs 795-818
update_energy_for_turn(g) ==
    LET ke == KineticEnergy(g.ramp_turn)
        gamma == kinetic_to_gamma(ke)
        gamma_ratio == GammaRatio(gamma)
    IN  Log([g EXCEPT !.current_ke_gev = ke,
                  !.current_gamma = gamma,
                  !.phase = IF gamma_ratio < 8500 THEN "EarlyRamp"
                            ELSE IF gamma_ratio < 9700 THEN "PreTransition"
                            ELSE IF gamma_ratio < 10300 THEN "Transition"
                            ELSE IF g.ramp_turn < TURNS_IN_CYCLE - EXTRACTION_MARGIN
                                 THEN "PostTransition"
                                 ELSE "Extraction"],
            "update_energy_for_turn")

\* booster.rs 822-898, called at 1153: what it computes (tune, beta,
\* chromaticity) reaches the beam of this game through chrom_quality, the
\* drawn input of handle_transition.
update_optics(g) == Log(g, "update_optics")

\* A variant of advance_longitudinal in which an escape gives losses back; the
\* monotony of C3 does not hold of it.
advance_longitudinal_refund(g, escaped) ==
    IF escaped
    THEN [g EXCEPT !.beam_losses = @ - LONGITUDINAL_LOSS,
                   !.bucket_escapes = @ + 1]
    ELSE g

\* booster.rs 986-1029; escaped: the bucket test of line 1026 (|dE| beyond three
\* bucket heights or |phi| > pi) on the floating-point longitudinal coordinates.
advance_longitudinal(g, escaped) ==
    LET g1 == IF "phi_history" \in DOMAIN g
              THEN LET over == Len(g.phi_history) + 1 > MAX_HISTORY
                       phi == Append(g.phi_history, g.ramp_turn)
                       de == Append(g.de_history, g.ramp_turn)
                   IN  [g EXCEPT !.phi_history = IF over THEN Tail(phi) ELSE phi,
                                 !.de_history = IF over THEN Tail(de) ELSE de]
              ELSE g
    IN  Log(IF escaped
            THEN [g1 EXCEPT !.beam_losses = @ + LONGITUDINAL_LOSS,
                            !.bucket_escapes = @ + 1]
            ELSE g1,
            "advance_longitudinal")

\* A variant of handle_transition without the early return on
\* transition_crossed; the handler of C12 is not idempotent under it.
handle_transition_repeat(g, chrom) ==
    LET gamma_ratio == GammaRatio(g.current_gamma)
    IN  IF gamma_ratio > 9900 /\ gamma_ratio < 10100
        THEN [g EXCEPT !.beam_losses = @ + chrom * 2,
                       !.beam_intensity = (@ * Max(100 - chrom, 50)) \div 100,
                       !.transition_crossed = (gamma_ratio > 10050),
                       !.transition_kicks = @ + 1]
        ELSE g

\* booster.rs 1032-1065; chrom: chrom_quality of lines 1039-1040, a whole number here.
handle_transition(g, chrom) ==
    LET gamma_ratio == GammaRatio(g.current_gamma)
    IN  Log(IF g.transition_crossed THEN g
            ELSE IF gamma_ratio > 9900 /\ gamma_ratio < 10100
            THEN [g EXCEPT !.beam_losses = @ + chrom * 2,
                           !.beam_intensity = (@ * Max(100 - chrom, 50)) \div 100,
                           !.transition_crossed = (gamma_ratio > 10050),
                           !.transition_kicks = @ + 1]
            ELSE g,
            "handle_transition")

\* A variant of complete_turn that runs the transition handler before the
\* energy update, on the energy of the turn before; the order of C25 is not
\* the order of its calls.
complete_turn_stale(g, escaped, chrom) ==
    LET g1 == [g EXCEPT !.beam_cell = 0,
                        !.turns_completed = @ + 1,
                        !.ramp_turn = @ + 1]
        g2 == [g1 EXCEPT !.best_turns = Max(@, g1.turns_completed)]
        g3 == Log(advance_longitudinal(update_optics(update_energy_for_turn(
                      handle_transition(g2, chrom))), escaped),
                  "check_extraction")
    IN  IF g3.ramp_turn >= TURNS_IN_CYCLE
        THEN [g3 EXCEPT !.phase = "Extraction", !.beam_running = FALSE]
        ELSE g3

\* booster.rs 1125-1162: the beam leaves the last cell of the ring
complete_turn(g, escaped, chrom) ==
    LET g0 == [g EXCEPT !.beam_cell = 0,
                        !.turns_completed = @ + 1,
                        !.ramp_turn = @ + 1]
        g1 == Push(Push(Push(g0, "turn_positions", g0.turns_completed,
                             TURN_POSITIONS_KEPT),
                        "x_xp_history", g0.turns_completed, MAX_HISTORY),
                   "y_yp_history", g0.turns_completed, MAX_HISTORY)
        g2 == [g1 EXCEPT !.best_turns = Max(@, g1.turns_completed)]
        g3 == Log(handle_transition(
                      advance_longitudinal(
                          update_optics(update_energy_for_turn(g2)), escaped),
                      chrom),
                  "check_extraction")
    IN  IF g3.ramp_turn >= TURNS_IN_CYCLE
        THEN [g3 EXCEPT !.phase = "Extraction", !.beam_running = FALSE]
        ELSE g3

\* A variant of next_element that wraps the cell index one cell late; the
\* tracker of C32 leaves the ring under it.
next_element_late_wrap(g, escaped, chrom) ==
    IF g.beam_element + 1 >= ELEMENTS_PER_CELL
    THEN LET g1 == [g EXCEPT !.beam_element = 0]
         IN  IF g1.beam_cell + 1 > NUM_CELLS
             THEN complete_turn(g1, escaped, chrom)
             ELSE [g1 EXCEPT !.beam_cell = @ + 1]
    ELSE [g EXCEPT !.beam_element = @ + 1]

\* booster.rs 1114-1163: advance to the next element
next_element(g, escaped, chrom) ==
    IF g.beam_element + 1 >= ELEMENTS_PER_CELL
    THEN LET g1 == Push([g EXCEPT !.beam_element = 0], "trail",
                        [cell |-> g.beam_cell, turn |-> g.turns_completed],
                        NUM_CELLS * 3)
         IN  IF g1.beam_cell + 1 >= NUM_CELLS
             THEN complete_turn(g1, escaped, chrom)
             ELSE [g1 EXCEPT !.beam_cell = @ + 1]
    ELSE [g EXCEPT !.beam_element = @ + 1]

\* A variant of advance_beam that carries the excess of beam_progress over to
\* the next element; the sub-steps of C24 are not the sub-steps it makes.
advance_beam_carry(g, zone, escaped, chrom) ==
    IF g.beam_progress + PROGRESS_STEP < 100
    THEN [g EXCEPT !.beam_progress = @ + PROGRESS_STEP]
    ELSE LET g1 == [g EXCEPT !.beam_progress = @ + PROGRESS_STEP - 100,
                             !.beam_x = zone]
         IN  IF zone = 2
             THEN [g1 EXCEPT !.beam_lost = TRUE, !.phase = "Lost"]
             ELSE LET g2 == IF zone = 1
                            THEN [g1 EXCEPT
                                    !.beam_losses = @ + SoftLoss,
                                    !.beam_intensity =
                                        (@ * Max(1000 - SoftLoss, 0)) \div 1000]
                            ELSE g1
                  IN  IF g2.beam_losses >= MAX_LOSSES
                      THEN [g2 EXCEPT !.beam_lost = TRUE, !.phase = "Lost"]
                      ELSE next_element(g2, escaped, chrom)

\* A variant of advance_beam whose MAX_LOSSES branch raises beam_lost and
\* leaves the phase; the flag and the phase of C33 do not agree under it.
advance_beam_flag_only(g, zone, escaped, chrom) ==
    IF g.beam_progress + PROGRESS_STEP < 100
    THEN [g EXCEPT !.beam_progress = @ + PROGRESS_STEP]
    ELSE LET g1 == [g EXCEPT !.beam_progress = 0, !.beam_x = zone]
         IN  IF zone = 2
             THEN [g1 EXCEPT !.beam_lost = TRUE, !.phase = "Lost"]
             ELSE LET g2 == IF zone = 1
                            THEN [g1 EXCEPT
                                    !.beam_losses = @ + SoftLoss,
                                    !.beam_intensity =
                                        (@ * Max(1000 - SoftLoss, 0)) \div 1000]
                            ELSE g1
                  IN  IF g2.beam_losses >= MAX_LOSSES
                      THEN [g2 EXCEPT !.beam_lost = TRUE]
                      ELSE next_element(g2, escaped, chrom)

\* booster.rs 1068-1165; zone: where apply_element (928-983) leaves the beam.
advance_beam(g, zone, escaped, chrom) ==
    IF g.beam_progress + PROGRESS_STEP < 100
    THEN [g EXCEPT !.beam_progress = @ + PROGRESS_STEP]
    ELSE LET g1 == [g EXCEPT !.beam_progress = 0, !.beam_x = zone]
         IN  IF zone = 2
             THEN [g1 EXCEPT !.beam_lost = TRUE, !.phase = "Lost"]
             ELSE LET g2 == IF zone = 1
                            THEN [g1 EXCEPT
                                    !.beam_losses = @ + SoftLoss,
                                    !.beam_intensity =
                                        (@ * Max(1000 - SoftLoss, 0)) \div 1000]
                            ELSE g1
                  IN  IF g2.beam_losses >= MAX_LOSSES
                      THEN [g2 EXCEPT !.beam_lost = TRUE, !.phase = "Lost"]
                      ELSE next_element(g2, escaped, chrom)

steps_per_tick(speed) ==
    CASE speed = "Slow" -> STEPS_SLOW
      [] speed = "Normal" -> STEPS_NORMAL
      [] OTHER -> STEPS_FAST

\* A variant of run_steps whose loop does not stop at a lost beam; the lost
\* beam of C13 does not stay where it was lost under it.
RECURSIVE run_steps_on(_, _, _, _)
run_steps_on(g, n, o, first) ==
    IF n = 0 \/ g.phase = "Extraction" THEN g
    ELSE LET applies == g.beam_progress + PROGRESS_STEP >= 100
             zone == IF first THEN o.first ELSE o.rest
         IN  run_steps_on(advance_beam(g, zone, o.escaped, o.chrom), n - 1, o,
                          first /\ ~applies)

\* booster.rs 1229-1232: the sub-step loop of update().  o is what the tick's
\* floating-point physics comes to: o.first the zone after the first element
\* applied in this tick, o.rest after every later one, o.escaped and o.chrom
\* for the turn completed in this tick (at most one).  first: no element has
\* been applied yet in this tick.
RECURSIVE run_steps(_, _, _, _)
run_steps(g, n, o, first) ==
    IF n = 0 \/ g.beam_lost \/ g.phase = "Extraction" THEN g
    ELSE LET applies == g.beam_progress + PROGRESS_STEP >= 100
             zone == IF first THEN o.first ELSE o.rest
         IN  run_steps(advance_beam(g, zone, o.escaped, o.chrom), n - 1, o,
                       first /\ ~applies)

(***************************************************************************)
(* BoosterGame::new (booster.rs 681-790).                                  *)
(***************************************************************************)
CorrectorSelect == {"HTrim", "VTrim", "TrimQuad", "SkewQuad", "SextA", "SextB"}

\* CorrectorPackage::new (booster.rs 130-139); values in steps of adjust_speed
CorrectorPackage_new ==
    [HTrim |-> 0, VTrim |-> 0, TrimQuad |-> 0, SkewQuad |-> 0, SextA |-> 0, SextB |-> 0]

\* the fields that BoosterGame::new sets and reset() does not restore
NewGame ==
    [phase |-> "Setup", beam_running |-> FALSE, beam_lost |-> FALSE,
     beam_losses |-> 0, beam_intensity |-> 1000,
     beam_x |-> 0, beam_cell |-> 0, beam_element |-> 0, beam_progress |-> 0,
     ramp_turn |-> 0, turns_completed |-> 0, best_turns |-> 0,
     transition_crossed |-> FALSE,
     current_ke_gev |-> E_INJECTION_GEV,
     current_gamma |-> kinetic_to_gamma(E_INJECTION_GEV),
     bucket_escapes |-> 0, transition_kicks |-> 0]

SetGame(g) ==
    /\ phase' = g.phase
    /\ beam_running' = g.beam_running
    /\ beam_lost' = g.beam_lost
    /\ beam_losses' = g.beam_losses
    /\ beam_intensity' = g.beam_intensity
    /\ beam_x' = g.beam_x
    /\ beam_cell' = g.beam_cell
    /\ beam_element' = g.beam_element
    /\ beam_progress' = g.beam_progress
    /\ ramp_turn' = g.ramp_turn
    /\ turns_completed' = g.turns_completed
    /\ best_turns' = g.best_turns
    /\ transition_crossed' = g.transition_crossed
    /\ current_ke_gev' = g.current_ke_gev
    /\ current_gamma' = g.current_gamma
    /\ bucket_escapes' = g.bucket_escapes
    /\ transition_kicks' = g.transition_kicks

gameVars == <<phase, beam_running, beam_lost, beam_losses, beam_intensity,
              beam_x, beam_cell, beam_element, beam_progress,
              ramp_turn, turns_completed, best_turns, transition_crossed,
              current_ke_gev, current_gamma, bucket_escapes, transition_kicks>>

controlVars == <<correctors, selected_cell, selected_corrector, sim_speed>>

BoosterInit ==
    /\ phase = NewGame.phase
    /\ beam_running = NewGame.beam_running
    /\ beam_lost = NewGame.beam_lost
    /\ beam_losses = NewGame.beam_losses
    /\ beam_intensity = NewGame.beam_intensity
    /\ beam_x = NewGame.beam_x
    /\ beam_cell = NewGame.beam_cell
    /\ beam_element = NewGame.beam_element
    /\ beam_progress = NewGame.beam_progress
    /\ ramp_turn = NewGame.ramp_turn
    /\ turns_completed = NewGame.turns_completed
    /\ best_turns = NewGame.best_turns
    /\ transition_crossed = NewGame.transition_crossed
    /\ current_ke_gev = NewGame.current_ke_gev
    /\ current_gamma = NewGame.current_gamma
    /\ bucket_escapes = NewGame.bucket_escapes
    /\ transition_kicks = NewGame.transition_kicks
    /\ paused = FALSE
    /\ sim_speed = "Slow"
    /\ input_mode = "None"
    /\ correctors = [c \in 0 .. NUM_CELLS - 1 |-> CorrectorPackage_new]
    /\ selected_cell = 0
    /\ selected_corrector = "HTrim"

\* A variant of reset that also forgets the correctors; C5 does not hold of it.
reset_forgetful ==
    /\ SetGame([NewGame EXCEPT !.best_turns = best_turns])
    /\ paused' = FALSE
    /\ input_mode' = "None"
    /\ correctors' = [c \in 0 .. NUM_CELLS - 1 |-> CorrectorPackage_new]
    /\ UNCHANGED <<selected_cell, selected_corrector, sim_speed>>

(***************************************************************************)
(* BoosterGame::reset (booster.rs 1801-1827): a new game that keeps        *)
(* best_turns, the correctors, the selection and the speed.                *)
(***************************************************************************)
reset ==
    /\ SetGame([NewGame EXCEPT !.best_turns = best_turns])
    /\ paused' = FALSE
    /\ input_mode' = "None"
    /\ UNCHANGED controlVars

\* booster.rs 1276-1305 and 1348-1377: the injection block; zone is the class of
\* the injection coordinates (0 for the on-axis injection of the space key).
inject(zone) ==
    /\ SetGame([Game EXCEPT !.beam_running = TRUE,
                            !.phase = "Injection",
                            !.beam_x = zone,
                            !.beam_cell = 0,
                            !.beam_element = 0,
                            !.beam_progress = 0,
                            !.beam_losses = 0,
                            !.ramp_turn = 0,
                            !.transition_crossed = FALSE,
                            !.current_ke_gev = E_INJECTION_GEV,
                            !.current_gamma = kinetic_to_gamma(E_INJECTION_GEV),
                            !.beam_intensity = 1000,
                            !.bucket_escapes = 0,
                            !.transition_kicks = 0])
    /\ input_mode' = "None"
    /\ UNCHANGED <<paused, controlVars>>

\* booster.rs 1338: the game-over test of handle_input
Terminal == beam_lost \/ phase = "Extraction"

\* booster.rs 1797-1799
is_game_over == phase = "Extraction"

\* A variant of extraction_bonus paid in every terminal phase; the score of C8
\* is not the score of it.
extraction_bonus_terminal == IF Terminal THEN EXTRACTION_BONUS ELSE 0

\* booster.rs 1788-1795
intensity_score == beam_intensity
turn_score == ramp_turn
transition_bonus == IF transition_crossed THEN TRANSITION_BONUS ELSE 0
extraction_bonus == IF phase = "Extraction" THEN EXTRACTION_BONUS ELSE 0
get_score == intensity_score + turn_score + transition_bonus + extraction_bonus

(***************************************************************************)
(* BoosterGame::update (booster.rs 1221-1249).                             *)
(***************************************************************************)
\* elements applied by n sub-steps from the current progress
ElementsInTick(n) == ((beam_progress \div PROGRESS_STEP) + n) \div 3
\* elements left until the beam leaves the last cell
ElementsToTurnEnd ==
    NUM_CELLS * ELEMENTS_PER_CELL - (beam_cell * ELEMENTS_PER_CELL + beam_element)

\* What the physics of one tick can come to; the fields a tick cannot read are
\* fixed, so that no outcome is drawn twice.
TickOutcomes(n) ==
    LET k == ElementsInTick(n)
        turn == k >= ElementsToTurnEnd
    IN  [first : IF k >= 1 THEN Zones ELSE {0},
         rest : IF k >= 2 THEN Zones ELSE {0},
         escaped : IF turn /\ bucket_escapes < MaxBucketEscapes
                   THEN BOOLEAN ELSE {FALSE},
         chrom : IF turn THEN {0, ChromBad} ELSE {0}]

\* A variant of update without the pause test of booster.rs 1226; the paused
\* game of C22 does not stand still under it.
Update_through_pause ==
    IF beam_lost \/ phase = "Extraction" \/ ~beam_running
    THEN UNCHANGED vars
    ELSE \E o \in TickOutcomes(steps_per_tick(sim_speed)) :
            /\ SetGame(run_steps(Game, steps_per_tick(sim_speed), o, TRUE))
            /\ UNCHANGED <<paused, input_mode, controlVars>>

Update ==
    IF paused \/ beam_lost \/ phase = "Extraction" \/ ~beam_running
    THEN UNCHANGED vars
    ELSE \E o \in TickOutcomes(steps_per_tick(sim_speed)) :
            /\ SetGame(run_steps(Game, steps_per_tick(sim_speed), o, TRUE))
            /\ UNCHANGED <<paused, input_mode, controlVars>>

(***************************************************************************)
(* BoosterGame::handle_input (booster.rs 1251-1629), one action per key.   *)
(***************************************************************************)
KeyR ==
    IF input_mode # "None" THEN UNCHANGED vars ELSE reset

\* A variant of KeyP without the game-over test of booster.rs 1333; the terminal
\* phases of C4 are not frozen under it.
KeyP_always ==
    IF input_mode # "None"
    THEN UNCHANGED vars
    ELSE /\ paused' = ~paused
         /\ UNCHANGED <<gameVars, input_mode, controlVars>>

KeyP ==
    IF input_mode # "None" \/ beam_lost \/ phase = "Extraction"
    THEN UNCHANGED vars
    ELSE /\ paused' = ~paused
         /\ UNCHANGED <<gameVars, input_mode, controlVars>>

\* A variant of KeySpace without the beam_running test of booster.rs 1347; the
\* injection of C19 is accepted on a running beam under it.
KeySpace_rerun ==
    IF input_mode # "None" THEN UNCHANGED vars
    ELSE IF Terminal THEN reset
    ELSE IF paused THEN UNCHANGED vars
    ELSE /\ best_turns <= MaxReplayBest
         /\ inject(0)

\* booster.rs 1346-1380
KeySpace ==
    IF input_mode # "None" THEN UNCHANGED vars
    ELSE IF Terminal THEN reset
    ELSE IF paused \/ beam_running THEN UNCHANGED vars
    ELSE /\ best_turns <= MaxReplayBest
         /\ inject(0)

KeyI ==
    IF input_mode = "None" /\ ~Terminal /\ ~paused /\ ~beam_running
    THEN /\ input_mode' = "InjectX"
         /\ UNCHANGED <<gameVars, paused, controlVars>>
    ELSE UNCHANGED vars

\* ok: input_buffer parses as a number
KeyEnter ==
    \E ok \in BOOLEAN, zone \in Zones :
        IF input_mode = "InjectX"
        THEN /\ input_mode' = IF ok THEN "InjectY" ELSE "InjectX"
             /\ UNCHANGED <<gameVars, paused, controlVars>>
        ELSE IF input_mode = "InjectY"
        THEN IF ok
             THEN /\ best_turns <= MaxReplayBest
                  /\ inject(zone)
             ELSE UNCHANGED vars
        ELSE IF Terminal THEN reset
        ELSE UNCHANGED vars

KeyEsc ==
    IF input_mode # "None"
    THEN /\ input_mode' = "None"
         /\ UNCHANGED <<gameVars, paused, controlVars>>
    ELSE UNCHANGED vars

\* the keys handled after the game-over and pause tests (booster.rs 1338-1344)
Ignored == input_mode # "None" \/ Terminal \/ paused

\* booster.rs 1184-1194
adjust_corrector(cell, corr_type, delta) ==
    [correctors EXCEPT ![cell][corr_type] = @ + delta]

Abs(x) == IF x < 0 THEN -x ELSE x

\* booster.rs 1448-1459: adjust the selected corrector by one adjust_speed
\* (bump is None: the bump key is not among the keys modelled)
KeyRight ==
    IF Ignored THEN UNCHANGED vars
    ELSE /\ Abs(correctors[selected_cell][selected_corrector] + 1) <= MaxTrim
         /\ correctors' = adjust_corrector(selected_cell, selected_corrector, 1)
         /\ UNCHANGED <<gameVars, paused, input_mode, selected_cell,
                        selected_corrector, sim_speed>>

(***************************************************************************)
(* BeamGame: the ramp table (beam.rs 545-587).  ramp_powers[m][i] is the   *)
(* setpoint of magnet m at checkpoint i, magnet_power[m] is                *)
(* magnets[m].power.                                                       *)
(***************************************************************************)
Magnets == 0 .. TOTAL_MAGNETS - 1
Ramps == 0 .. NUM_RAMPS - 1

\* f32::clamp
clamp(v, lo, hi) == IF v < lo THEN lo ELSE IF v > hi THEN hi ELSE v

\* A variant of clamp_ramp_value that looks at the previous checkpoint only;
\* the stored value of C2 is not the value it gives.
clamp_prev_only(rp, magnet_idx, ramp_idx, value) ==
    IF ramp_idx > 0
    THEN clamp(value, rp[magnet_idx][ramp_idx - 1] - MAX_RAMP_DELTA,
                      rp[magnet_idx][ramp_idx - 1] + MAX_RAMP_DELTA)
    ELSE value

\* beam.rs 551-562
clamp_ramp_value(rp, magnet_idx, ramp_idx, value) ==
    LET v1 == IF ramp_idx > 0
              THEN clamp(value, rp[magnet_idx][ramp_idx - 1] - MAX_RAMP_DELTA,
                                rp[magnet_idx][ramp_idx - 1] + MAX_RAMP_DELTA)
              ELSE value
    IN  IF ramp_idx < NUM_RAMPS - 1
        THEN clamp(v1, rp[magnet_idx][ramp_idx + 1] - MAX_RAMP_DELTA,
                       rp[magnet_idx][ramp_idx + 1] + MAX_RAMP_DELTA)
        ELSE v1

\* the table and the display powers, as the edits write them together
Table == [ramp_powers |-> ramp_powers, magnet_power |-> magnet_power]

\* beam.rs 584-586, 826-831 and 838-840: clamp a value and store it at a checkpoint
store_clamped(t, ramp_idx, magnet_idx, value) ==
    LET clamped == clamp_ramp_value(t.ramp_powers, magnet_idx, ramp_idx, value)
    IN  [t EXCEPT !.ramp_powers[magnet_idx][ramp_idx] = clamped,
                  !.magnet_power[magnet_idx] = clamped]

\* A variant of adjust_ramp_power that stores the request as it is; the bound
\* of C1 does not hold of it.
adjust_unclamped(t, ramp_idx, magnet_idx, delta) ==
    [t EXCEPT !.ramp_powers[magnet_idx][ramp_idx] = @ + delta,
              !.magnet_power[magnet_idx] = t.ramp_powers[magnet_idx][ramp_idx] + delta]

\* beam.rs 581-587
adjust_ramp_power(t, ramp_idx, magnet_idx, delta) ==
    store_clamped(t, ramp_idx, magnet_idx,
                  t.ramp_powers[magnet_idx][ramp_idx] + delta)

\* A variant of sync_display_from_ramp that reads the checkpoint selected before
\* the key; the display of C21 is not the display it gives.
sync_display_stale(rp, ramp_idx) == [m \in Magnets |-> rp[m][selected_ramp]]

\* beam.rs 565-570
sync_display_from_ramp(rp, ramp_idx) == [m \in Magnets |-> rp[m][ramp_idx]]

\* beam.rs 545-548
ramp_power_for_turn(rp, magnet_idx, turn) ==
    rp[magnet_idx][Min(turn, NUM_RAMPS - 1)]

\* A variant of sync_interpolated_powers that takes the checkpoint on display
\* instead of the turn's; the powers of C20 are not the powers it gives.
sync_selected_powers(rp, turn) ==
    [m \in Magnets |-> rp[m][selected_ramp]]

\* beam.rs 573-578
sync_interpolated_powers(rp, turn) ==
    [m \in Magnets |-> ramp_power_for_turn(rp, m, turn)]

\* BumpConfig (beam.rs 39-73); size 0 stands for bump = None
NoBump == [size |-> 0, start_section |-> 0]

coefficients(size) ==
    CASE size = 3 -> <<1, -2, 1>>
      [] size = 4 -> <<1, -1, -1, 1>>
      [] size = 5 -> <<1, -2, 2, -2, 1>>
      [] OTHER -> <<>>

\* A variant of section_coefficients that does not wrap at the end of the
\* ring; the cells of C16 are not the cells it gives.
section_coefficients_nowrap(b) ==
    [i \in 1 .. Len(coefficients(b.size)) |->
        <<b.start_section + i - 1, coefficients(b.size)[i]>>]

\* beam.rs 67-73 (and booster.rs 193-199)
section_coefficients(b) ==
    [i \in 1 .. Len(coefficients(b.size)) |->
        <<(b.start_section + i - 1) % NUM_SECTIONS, coefficients(b.size)[i]>>]

\* A variant of adjust_bump that moves every trim of the bump by the bare
\* step; the changes of C17 are not the changes it makes.
RECURSIVE adjust_bump_flat(_, _, _, _, _, _, _)
adjust_bump_flat(t, ramp_idx, sc, k, step, h, v) ==
    IF k > Len(sc) THEN t
    ELSE LET sec == sc[k][1]
             t1 == IF h THEN adjust_ramp_power(t, ramp_idx,
                                 sec * MAGNETS_PER_SECTION + 5, step)
                   ELSE t
             t2 == IF v THEN adjust_ramp_power(t1, ramp_idx,
                                 sec * MAGNETS_PER_SECTION + 4, step)
                   ELSE t1
         IN  adjust_bump_flat(t2, ramp_idx, sc, k + 1, step, h, v)

\* beam.rs 672-681 and 694-703: the loop over the bump's sections, from the
\* k-th pair on;
\* h and v tell which trims the key adjusts (Up and Down adjust both)
RECURSIVE adjust_bump(_, _, _, _, _, _, _)
adjust_bump(t, ramp_idx, sc, k, step, h, v) ==
    IF k > Len(sc) THEN t
    ELSE LET sec == sc[k][1]
             coeff == sc[k][2]
             t1 == IF h THEN adjust_ramp_power(t, ramp_idx,
                                 sec * MAGNETS_PER_SECTION + 5, step * coeff)
                   ELSE t
             t2 == IF v THEN adjust_ramp_power(t1, ramp_idx,
                                 sec * MAGNETS_PER_SECTION + 4, step * coeff)
                   ELSE t1
         IN  adjust_bump(t2, ramp_idx, sc, k + 1, step, h, v)

\* beam.rs 818-832: zero the trims of the bump's sections
RECURSIVE zero_bump(_, _, _, _)
zero_bump(t, ramp_idx, sc, k) ==
    IF k > Len(sc) THEN t
    ELSE LET sec == sc[k][1]
             t1 == store_clamped(t, ramp_idx, sec * MAGNETS_PER_SECTION + 5, 0)
             t2 == store_clamped(t1, ramp_idx, sec * MAGNETS_PER_SECTION + 4, 0)
         IN  zero_bump(t2, ramp_idx, sc, k + 1)

\* beam.rs 480-486
selected_section == selected \div MAGNETS_PER_SECTION

\* beam.rs 489-511
copy_to_all_sections(t) ==
    LET src_base == selected_section * MAGNETS_PER_SECTION
        src(m) == src_base + (m % MAGNETS_PER_SECTION)
    IN  [ramp_powers |-> [m \in Magnets |-> t.ramp_powers[src(m)]],
         magnet_power |-> [m \in Magnets |-> t.magnet_power[src(m)]]]

(***************************************************************************)
(* BeamGame::new (beam.rs 262-335), reset (1613-1639), update (591-630)    *)
(* and handle_input (632-904), one action per key.                         *)
(***************************************************************************)
NoRequest == [magnet |-> -1, ramp |-> 0, value |-> 0]

bgTable == <<ramp_powers, magnet_power>>
bgNav == <<selected, selected_ramp, bump, adjust_speed>>
bgRun == <<bg_paused, bg_beam_running, bg_beam_lost, beam_completed,
           bg_turns_completed, bg_best_turns>>

BeamInit ==
    /\ ramp_powers = [m \in Magnets |-> [i \in Ramps |-> 0]]
    /\ magnet_power = [m \in Magnets |-> 0]
    /\ selected = 0
    /\ selected_ramp = 0
    /\ bump = NoBump
    /\ adjust_speed = InitialSpeed
    /\ bg_paused = FALSE
    /\ bg_beam_running = FALSE
    /\ bg_beam_lost = FALSE
    /\ beam_completed = FALSE
    /\ bg_turns_completed = 0
    /\ bg_best_turns = 0
    /\ steps = 0
    /\ last_request = NoRequest

SetTable(t) ==
    /\ ramp_powers' = t.ramp_powers
    /\ magnet_power' = t.magnet_power

Counted ==
    /\ steps < MaxSteps
    /\ steps' = steps + 1
    /\ last_request' = NoRequest

CountedEdit(magnet_idx, ramp_idx, value) ==
    /\ steps < MaxSteps
    /\ steps' = steps + 1
    /\ last_request' = [magnet |-> magnet_idx, ramp |-> ramp_idx, value |-> value]

\* beam.rs 1613-1639
BeamGame_reset ==
    /\ bg_paused' = FALSE
    /\ bg_beam_running' = FALSE
    /\ bg_beam_lost' = FALSE
    /\ beam_completed' = FALSE
    /\ bg_turns_completed' = 0
    /\ magnet_power' = sync_display_from_ramp(ramp_powers, selected_ramp)
    /\ UNCHANGED <<ramp_powers, bgNav, bg_best_turns>>

BeamTerminal == bg_beam_lost \/ beam_completed
BeamIgnored == BeamTerminal \/ bg_paused

\* beam.rs 591-630.  The place of the beam in the ring is not followed: a tick
\* applies one element (three sub-steps of 0.40), and outcome tells whether
\* that element loses the beam (398-448), ends a turn (451-475) or neither.
BeamUpdate ==
    IF bg_paused \/ bg_beam_lost \/ beam_completed \/ ~bg_beam_running
    THEN UNCHANGED vars
    ELSE \E outcome \in {"none", "lost", "turn"} :
            /\ Counted
            /\ magnet_power' = sync_interpolated_powers(ramp_powers, bg_turns_completed)
            /\ bg_beam_lost' = (outcome = "lost")
            /\ bg_turns_completed' = bg_turns_completed + (IF outcome = "turn" THEN 1 ELSE 0)
            /\ bg_best_turns' = Max(bg_best_turns, bg_turns_completed')
            /\ beam_completed' = (outcome = "turn" /\ bg_turns_completed' >= GOAL_TURNS)
            /\ UNCHANGED <<ramp_powers, bgNav, bg_paused, bg_beam_running>>

BeamKeyR == Counted /\ BeamGame_reset

BeamKeyP ==
    IF BeamTerminal THEN UNCHANGED vars
    ELSE /\ Counted
         /\ bg_paused' = ~bg_paused
         /\ UNCHANGED <<bgTable, bgNav, bg_beam_running, bg_beam_lost,
                        beam_completed, bg_turns_completed, bg_best_turns>>

BeamKeySpace ==
    IF BeamTerminal THEN Counted /\ BeamGame_reset
    ELSE IF bg_paused \/ bg_beam_running THEN UNCHANGED vars
    ELSE /\ Counted
         /\ bg_beam_running' = TRUE
         /\ UNCHANGED <<bgTable, bgNav, bg_paused, bg_beam_lost, beam_completed,
                        bg_turns_completed, bg_best_turns>>

BeamKeyEnter ==
    IF BeamTerminal THEN Counted /\ BeamGame_reset ELSE UNCHANGED vars

\* dir = 1 for Up, -1 for Down (beam.rs 669-708)
BeamKeyUpDown(dir) ==
    IF BeamIgnored THEN UNCHANGED vars
    ELSE /\ Counted
         /\ IF bump.size # 0
            THEN /\ SetTable(adjust_bump(Table, selected_ramp,
                                         section_coefficients(bump), 1,
                                         dir * adjust_speed, TRUE, TRUE))
                 /\ UNCHANGED <<bgNav, bgRun>>
            ELSE /\ selected' = (selected + TOTAL_MAGNETS - dir) % TOTAL_MAGNETS
                 /\ UNCHANGED <<bgTable, selected_ramp, bump, adjust_speed, bgRun>>

BeamKeyUp == BeamKeyUpDown(1)
BeamKeyDown == BeamKeyUpDown(-1)

\* dir = -1 for Left, 1 for Right (beam.rs 709-753)
BeamKeyLeftRight(dir) ==
    IF BeamIgnored THEN UNCHANGED vars
    ELSE IF bump.size # 0
         THEN /\ Counted
              /\ bump' = [bump EXCEPT !.start_section =
                             (@ + NUM_SECTIONS + dir) % NUM_SECTIONS]
              /\ UNCHANGED <<bgTable, selected, selected_ramp, adjust_speed, bgRun>>
         ELSE /\ CountedEdit(selected, selected_ramp,
                             ramp_powers[selected][selected_ramp] + dir * adjust_speed)
              /\ SetTable(adjust_ramp_power(Table, selected_ramp, selected,
                                            dir * adjust_speed))
              /\ UNCHANGED <<bgNav, bgRun>>

BeamKeyLeft == BeamKeyLeftRight(-1)
BeamKeyRight == BeamKeyLeftRight(1)

\* beam.rs 817-843
BeamKeyZ ==
    IF BeamIgnored THEN UNCHANGED vars
    ELSE IF bump.size # 0
         THEN /\ Counted
              /\ SetTable(zero_bump(Table, selected_ramp, section_coefficients(bump), 1))
              /\ UNCHANGED <<bgNav, bgRun>>
         ELSE /\ CountedEdit(selected, selected_ramp, 0)
              /\ SetTable(store_clamped(Table, selected_ramp, selected, 0))
              /\ UNCHANGED <<bgNav, bgRun>>

\* beam.rs 802-804
BeamKeyC ==
    IF BeamIgnored THEN UNCHANGED vars
    ELSE /\ Counted
         /\ SetTable(copy_to_all_sections(Table))
         /\ UNCHANGED <<bgNav, bgRun>>

\* beam.rs 844-852
BeamKeyDigit ==
    \E ramp_idx \in Ramps :
        IF BeamIgnored THEN UNCHANGED vars
        ELSE /\ Counted
             /\ selected_ramp' = ramp_idx
             /\ magnet_power' = sync_display_from_ramp(ramp_powers, ramp_idx)
             /\ UNCHANGED <<ramp_powers, selected, bump, adjust_speed, bgRun>>

\* beam.rs 854-889
BeamKeyB ==
    IF BeamIgnored THEN UNCHANGED vars
    ELSE /\ Counted
         /\ bump' = CASE bump.size = 0 -> [size |-> 3, start_section |-> selected_section]
                      [] bump.size = 3 -> [size |-> 4, start_section |-> bump.start_section]
                      [] bump.size = 4 -> [size |-> 5, start_section |-> bump.start_section]
                      [] OTHER -> NoBump
         /\ UNCHANGED <<bgTable, selected, selected_ramp, adjust_speed, bgRun>>

BeamNext ==
    \/ BeamUpdate
    \/ BeamKeyR
    \/ BeamKeyP
    \/ BeamKeySpace
    \/ BeamKeyEnter
    \/ BeamKeyUp
    \/ BeamKeyDown
    \/ BeamKeyLeft
    \/ BeamKeyRight
    \/ BeamKeyZ
    \/ BeamKeyC
    \/ BeamKeyDigit
    \/ BeamKeyB

(***************************************************************************)
(* One beam followed at the three speeds.  advance_beam reads neither the  *)
(* tick counter nor sim_speed (booster.rs 1068-1165, 928-1065), so what an *)
(* element or a turn completion does to the beam depends on the state of   *)
(* the beam only: it is drawn once, for the beam, and is the same in the   *)
(* three runs.                                                             *)
(***************************************************************************)
\* bounds: the sub-steps followed in each run, the last element (counted from
\* the start of the run) that may put the beam past the aperture, the
\* elements that may put it past the loss zone, and the last turn (counted
\* from the start) whose completion may find the beam outside the bucket
PaceHorizon == 168
LastLossElement == 9
SoftElements == {2, 5}
LastEscapeTurn == 2

\* gamma / GAMMA_TRANSITION at the completion of turn t
RatioAtTurn(t) == GammaRatio(kinetic_to_gamma(KineticEnergy(t)))

\* the first turn whose completion finds gamma inside the window of
\* handle_transition (booster.rs 1036)
FirstKickTurn ==
    CHOOSE t \in 1 .. TURNS_IN_CYCLE :
        /\ RatioAtTurn(t) > 9900
        /\ \A u \in 1 .. t - 1 : RatioAtTurn(u) <= 9900

\* the turns the runs start at: the injection, the turn before the transition
\* window and the turn before the phase becomes Extraction
PaceStartTurns == {0, FirstKickTurn - 1, TURNS_IN_CYCLE - EXTRACTION_MARGIN - 1}

\* the turns up to t at whose completion the body of handle_transition runs:
\* those inside the window, up to the first that sets transition_crossed
KickTurnsUpTo(t) ==
    {u \in 1 .. t :
        /\ RatioAtTurn(u) > 9900 /\ RatioAtTurn(u) < 10100
        /\ \A v \in 1 .. u - 1 :
              ~(RatioAtTurn(v) > 10050 /\ RatioAtTurn(v) < 10100)}

\* the game of a beam injected on axis (booster.rs 1348-1377) that has
\* completed t turns (1125-1162) without a loss, t below the turn of Extraction
StartGame(t) ==
    IF t = 0
    THEN [NewGame EXCEPT !.beam_running = TRUE, !.phase = "Injection"]
    ELSE update_energy_for_turn(
             [NewGame EXCEPT !.beam_running = TRUE,
                             !.ramp_turn = t,
                             !.turns_completed = t,
                             !.best_turns = t,
                             !.transition_crossed =
                                 \E u \in KickTurnsUpTo(t) : RatioAtTurn(u) > 10050,
                             !.transition_kicks = Cardinality(KickTurnsUpTo(t))])

\* elements applied to the beam of game g since the start of the run
ElementsApplied(p, g) ==
    (g.ramp_turn - p.start) * NUM_CELLS * ELEMENTS_PER_CELL
      + g.beam_cell * ELEMENTS_PER_CELL + g.beam_element

\* where apply_element leaves the beam of game g
ZoneAt(p, g) ==
    IF ElementsApplied(p, g) = p.hard THEN 2
    ELSE IF ElementsApplied(p, g) \in p.soft THEN 1
    ELSE 0

\* the bucket test of the turn that the beam of game g completes next
EscapedAt(p, g) == g.ramp_turn + 1 - p.start = p.escape

\* A variant of the sub-step loop in which every tick starts a new element;
\* the runs of C23 do not agree under it.
RECURSIVE run_scheduled_fresh(_, _, _, _)
run_scheduled_fresh(p, r, n, first) ==
    IF n = 0 \/ r.g.beam_lost \/ r.g.phase = "Extraction" THEN r
    ELSE LET g == IF first THEN [r.g EXCEPT !.beam_progress = 0] ELSE r.g
         IN  run_scheduled_fresh(p,
                 [g |-> advance_beam(g, ZoneAt(p, g), EscapedAt(p, g), p.chrom),
                  done |-> r.done + 1],
                 n - 1, FALSE)

\* booster.rs 1229-1232: the sub-step loop of update(), on the run r = [g: the
\* game, done: the sub-steps executed]; first: this is the first sub-step of
\* the tick
RECURSIVE run_scheduled(_, _, _, _)
run_scheduled(p, r, n, first) ==
    IF n = 0 \/ r.g.beam_lost \/ r.g.phase = "Extraction" THEN r
    ELSE run_scheduled(p,
             [g |-> advance_beam(r.g, ZoneAt(p, r.g), EscapedAt(p, r.g), p.chrom),
              done |-> r.done + 1],
             n - 1, FALSE)

NoPace ==
    [start |-> 0, hard |-> -1, soft |-> {}, escape |-> 0, chrom |-> 0,
     runs |-> [s \in Speeds |-> [g |-> NewGame, done |-> 0]]]

PaceInit ==
    \E start \in PaceStartTurns, hard \in -1 .. LastLossElement,
       soft \in SUBSET SoftElements, escape \in 0 .. LastEscapeTurn,
       chrom \in {0, ChromBad} :
        pace = [start |-> start, hard |-> hard, soft |-> soft,
                escape |-> escape, chrom |-> chrom,
                runs |-> [s \in Speeds |-> [g |-> StartGame(start), done |-> 0]]]

\* update() of the run at one speed: booster.rs 1226 and 1228-1232
RunLive(r) == ~r.g.beam_lost /\ r.g.phase # "Extraction" /\ r.g.beam_running

\* one tick of the run at one speed.  The runs do not act on each other; the
\* one that has executed the fewest sub-steps ticks next.
PaceTick(speed) ==
    LET r == pace.runs[speed]
    IN  /\ RunLive(r)
        /\ r.done < PaceHorizon
        /\ \A s \in Speeds :
              (RunLive(pace.runs[s]) /\ pace.runs[s].done < PaceHorizon)
                  => r.done <= pace.runs[s].done
        /\ pace' = [pace EXCEPT !.runs[speed] =
                        run_scheduled(pace, r, steps_per_tick(speed), TRUE)]
        /\ UNCHANGED <<current_tab, boosterVars, beamVars, callVars, trackVars,
                       subVars, opticsVars, scenarioVars, kickVars, bufVars, scoreVars>>

PaceSlow == PaceTick("Slow")
PaceNormal == PaceTick("Normal")
PaceFast == PaceTick("Fast")

PaceNext ==
    \/ PaceSlow
    \/ PaceNormal
    \/ PaceFast

(***************************************************************************)
(* One beam followed sub-step by sub-step: advance_beam of BoosterGame     *)
(* (booster.rs 1068-1165) and of BeamGame (beam.rs 398-478), one call per  *)
(* step.                                                                   *)
(***************************************************************************)
\* beam.rs 399: the step 0.40 of advance_beam, in hundredths
BG_PROGRESS_STEP == 40
\* beam.rs 165
BG_MAX_LOSSES == 100

\* bounds: the sub-steps followed, and the section of BeamGame that holds an
\* aperture restriction (beam.rs 278-292)
SubHorizon == 96
RestrictedSection == 1

\* the fields of BeamGame that advance_beam writes
NewBeamTrack ==
    [beam_progress |-> 0, beam_section |-> 0, beam_element |-> 0, beam_x |-> 0,
     beam_losses |-> 0, beam_lost |-> FALSE, turns_completed |-> 0,
     best_turns |-> 0, beam_completed |-> FALSE]

\* beam.rs 451-475: advance to the next element
bg_next_element(b) ==
    IF b.beam_element + 1 >= MAGNETS_PER_SECTION
    THEN LET b1 == Push([b EXCEPT !.beam_element = 0], "trail",
                        [cell |-> b.beam_section, turn |-> b.turns_completed],
                        NUM_SECTIONS * 3)
         IN  IF b1.beam_section + 1 >= NUM_SECTIONS
             THEN LET b2 == Push([b1 EXCEPT !.beam_section = 0,
                                            !.turns_completed = @ + 1],
                                 "turn_positions", b1.turns_completed + 1,
                                 TURN_POSITIONS_KEPT)
                      b3 == [b2 EXCEPT !.best_turns = Max(@, b2.turns_completed)]
                  IN  [b3 EXCEPT !.beam_completed =
                                     @ \/ b3.turns_completed >= GOAL_TURNS]
             ELSE [b1 EXCEPT !.beam_section = @ + 1]
    ELSE [b EXCEPT !.beam_element = @ + 1]

\* beam.rs 398-478; zone: where apply_element (337-396) leaves the beam,
\* blocked: the beam is on the blocked side of a restriction of its section
bg_advance_beam(b, zone, blocked) ==
    IF b.beam_progress + BG_PROGRESS_STEP < 100
    THEN [b EXCEPT !.beam_progress = @ + BG_PROGRESS_STEP]
    ELSE LET b1 == [b EXCEPT !.beam_progress = 0, !.beam_x = zone]
         IN  IF zone = 2
             THEN [b1 EXCEPT !.beam_lost = TRUE]
             ELSE LET b2 == IF zone = 1
                            THEN [b1 EXCEPT !.beam_losses = @ + SoftLoss]
                            ELSE b1
                  IN  IF b2.beam_losses >= BG_MAX_LOSSES
                      THEN [b2 EXCEPT !.beam_lost = TRUE]
                      ELSE IF blocked
                      THEN [b2 EXCEPT !.beam_lost = TRUE]
                      ELSE bg_next_element(b2)

\* beam.rs 338: the magnet that apply_element reads, counted from the injection
BeamElementsApplied(b) ==
    b.turns_completed * TOTAL_MAGNETS
      + b.beam_section * MAGNETS_PER_SECTION + b.beam_element

\* where apply_element leaves the beam of BeamGame
BeamZoneAt(p, b) ==
    IF BeamElementsApplied(b) = p.hard THEN 2
    ELSE IF BeamElementsApplied(b) \in p.soft THEN 1
    ELSE 0

NoSub ==
    [game |-> "None",
     p |-> [start |-> 0, hard |-> -1, soft |-> {}, escape |-> 0, chrom |-> 0],
     g |-> NewGame, b |-> NewBeamTrack, done |-> 0, calls |-> <<>>]

\* booster.rs 1348-1377: a beam of BoosterGame starts; its physics is drawn
SubInjectBooster ==
    /\ current_tab = "Booster"
    /\ sub.game = "None"
    /\ \E start \in PaceStartTurns, hard \in -1 .. LastLossElement,
          soft \in SUBSET SoftElements, escape \in 0 .. LastEscapeTurn,
          chrom \in {0, ChromBad} :
           sub' = [sub EXCEPT !.game = "Booster",
                              !.p = [start |-> start, hard |-> hard, soft |-> soft,
                                     escape |-> escape, chrom |-> chrom],
                              !.g = StartGame(start)]
    /\ UNCHANGED <<current_tab, boosterVars, beamVars, callVars, trackVars,
                   paceVars, opticsVars, scenarioVars, kickVars, bufVars, scoreVars>>

\* beam.rs 649-668: a beam of BeamGame starts; its physics is drawn
SubInjectBeam ==
    /\ current_tab = "Beam"
    /\ sub.game = "None"
    /\ \E hard \in -1 .. LastLossElement, soft \in SUBSET SoftElements :
           sub' = [sub EXCEPT !.game = "Beam",
                              !.p = [@ EXCEPT !.hard = hard, !.soft = soft]]
    /\ UNCHANGED <<current_tab, boosterVars, beamVars, callVars, trackVars,
                   paceVars, opticsVars, scenarioVars, kickVars, bufVars, scoreVars>>

\* one call of BoosterGame::advance_beam from the loop of update
\* (booster.rs 1229-1232)
BoosterSubStep ==
    /\ sub.game = "Booster"
    /\ RunLive(sub)
    /\ sub.done < SubHorizon
    /\ LET h == advance_beam(sub.g @@ [calls |-> <<>>], ZoneAt(sub.p, sub.g),
                             EscapedAt(sub.p, sub.g), sub.p.chrom)
       IN  sub' = [sub EXCEPT !.g = [f \in DOMAIN sub.g |-> h[f]],
                              !.calls = h.calls,
                              !.done = @ + 1]
    /\ UNCHANGED <<current_tab, boosterVars, beamVars, callVars, trackVars,
                   paceVars, opticsVars, scenarioVars, kickVars, bufVars, scoreVars>>

\* one call of BeamGame::advance_beam from the loop of update (beam.rs 606-609)
BeamSubStep ==
    /\ sub.game = "Beam"
    /\ ~sub.b.beam_lost /\ ~sub.b.beam_completed
    /\ sub.done < SubHorizon
    /\ \E side \in BOOLEAN :
           sub' = [sub EXCEPT !.b = bg_advance_beam(sub.b, BeamZoneAt(sub.p, sub.b),
                                        side /\ sub.b.beam_section = RestrictedSection),
                              !.done = @ + 1]
    /\ UNCHANGED <<current_tab, boosterVars, beamVars, callVars, trackVars,
                   paceVars, opticsVars, scenarioVars, kickVars, bufVars, scoreVars>>

(***************************************************************************)
(* The optics functions called on their own: Matrix2 (booster.rs 403-458), *)
(* the tune part of update_optics (822-862) and the energy of a turn       *)
(* (795-803).  The f64 arithmetic is kept with its rounding, scaled down   *)
(* from 53 significant bits to MantissaBits: a number is m * 2^e with      *)
(* |m| < 2^MantissaBits, and every operation rounds its exact result to    *)
(* the nearest such number.  The values of sqrt, cos, sin, cosh and sinh   *)
(* are taken from tables, in units of 2^-16.                               *)
(***************************************************************************)
MantissaBits == 12

\* the number of binary digits of n >= 0
BitLen(n) == CHOOSE b \in 0 .. 30 : n < 2^b /\ (b = 0 \/ n >= 2^(b - 1))

\* n * 2^e rounded to MantissaBits significant bits
Round(n, e) ==
    LET a == Abs(n)
        sg == IF n < 0 THEN -1 ELSE 1
        b == BitLen(a)
    IN  IF n = 0 THEN [m |-> 0, e |-> 0]
        ELSE IF b > MantissaBits
        THEN LET k == b - MantissaBits
                 r == (a + 2^(k - 1)) \div 2^k
             IN  IF r = 2^MantissaBits
                 THEN [m |-> sg * 2^(MantissaBits - 1), e |-> e + k + 1]
                 ELSE [m |-> sg * r, e |-> e + k]
        ELSE [m |-> sg * a * 2^(MantissaBits - b), e |-> e - (MantissaBits - b)]

FromInt(n) == Round(n, 0)

\* a decimal constant of the source, given in units of 2^-16
FromBin16(n) == Round(n, -16)

fmul(a, b) == Round(a.m * b.m, a.e + b.e)

fneg(a) == [a EXCEPT !.m = -@]

fabs(a) == [a EXCEPT !.m = Abs(@)]

fadd(a, b) ==
    IF a.m = 0 THEN b
    ELSE IF b.m = 0 THEN a
    ELSE LET hi == IF a.e >= b.e THEN a ELSE b
             lo == IF a.e >= b.e THEN b ELSE a
             d == hi.e - lo.e
         IN  IF d > MantissaBits + 1 THEN hi
             ELSE Round(hi.m * 2^d + lo.m, lo.e)

fsub(a, b) == fadd(a, fneg(b))

fdiv(a, b) ==
    LET q == (Abs(a.m) * 2^(MantissaBits + 2)) \div Abs(b.m)
        sg == IF (a.m < 0) = (b.m < 0) THEN 1 ELSE -1
    IN  Round(sg * q, a.e - b.e - (MantissaBits + 2))

\* a < b and a <= b
flt(a, b) == fsub(a, b).m < 0

fle(a, b) == fsub(a, b).m <= 0

\* booster.rs 15-17, 20-21, 40-41, 861
MAGNET_LENGTH == FromBin16(189334)
SHORT_DRIFT == FromBin16(78643)
LONG_DRIFT == FromBin16(393216)
TUNE_X_BARE == FromBin16(439091)
TUNE_Y_BARE == FromBin16(445645)
TRIM_QUAD_SENSITIVITY == FromBin16(3277)

\* A gradient k and what Matrix2::focusing computes from it for a magnet of
\* length MAGNET_LENGTH: sqrt(|k|) and, with phi = sqrt(|k|) * length, cos phi
\* and sin phi for k > 0, cosh phi and sinh phi for k < 0.
\* K1_F_INJECTION (0.0542) and K1_D_INJECTION (0.0577) at the injection energy
\* (brho_ratio = 1), and both at brho_ratio = 0.12 (kinetic energy 7.07 GeV)
Gradient(sign, sqrt_k, c, s) ==
    [sign |-> sign, sqrt_k |-> FromBin16(sqrt_k), c |-> FromBin16(c),
     s |-> FromBin16(s)]

ZeroGradient == Gradient(0, 0, 0, 0)

KF_Injection(sign) ==
    IF sign > 0 THEN Gradient(1, 15257, 51263, 40830)
    ELSE Gradient(-1, 15257, 80927, 47478)

KD_Injection(sign) ==
    IF sign > 0 THEN Gradient(1, 15742, 50379, 41916)
    ELSE Gradient(-1, 15742, 81960, 49219)

KF_Late(sign) ==
    IF sign > 0 THEN Gradient(1, 5285, 63765, 15131)
    ELSE Gradient(-1, 5285, 67323, 15408)

KD_Late(sign) ==
    IF sign > 0 THEN Gradient(1, 5453, 63651, 15603)
    ELSE Gradient(-1, 5453, 67439, 15907)

\* both gradients at the transition energy (gamma = GAMMA_TRANSITION,
\* brho_ratio = 0.19)
KF_Transition(sign) ==
    IF sign > 0 THEN Gradient(1, 6650, 62740, 18938)
    ELSE Gradient(-1, 6650, 68372, 19489)

KD_Transition(sign) ==
    IF sign > 0 THEN Gradient(1, 6862, 62561, 19522)
    ELSE Gradient(-1, 6862, 68557, 20127)

\* A defocusing gradient of large phase: phi = j * ln 2, for which
\* cosh phi = (2^j + 2^-j) / 2 and sinh phi = (2^j - 2^-j) / 2, with
\* sqrt(|k|) = 1 (the length is j * ln 2; at MAGNET_LENGTH the gradient is
\* k = -(j * ln 2 / 2.889)^2).
MaxDoublings == 8

StrongDefocusing(j) ==
    [sign |-> -1, sqrt_k |-> FromInt(1),
     c |-> Round(2^(2 * j) + 1, -(j + 1)),
     s |-> Round(2^(2 * j) - 1, -(j + 1))]

GradientSamples ==
    {ZeroGradient}
      \cup {KF_Injection(sg) : sg \in {-1, 1}} \cup {KD_Injection(sg) : sg \in {-1, 1}}
      \cup {KF_Late(sg) : sg \in {-1, 1}} \cup {KD_Late(sg) : sg \in {-1, 1}}
      \cup {StrongDefocusing(j) : j \in 1 .. MaxDoublings}

\* booster.rs 411-413, 415-417
identity == [m11 |-> FromInt(1), m12 |-> FromInt(0),
             m21 |-> FromInt(0), m22 |-> FromInt(1)]

drift(length) == [m11 |-> FromInt(1), m12 |-> length,
                  m21 |-> FromInt(0), m22 |-> FromInt(1)]

\* A variant of focusing with the signs of the focusing branch in the
\* defocusing branch; the determinant of C29 is cosh^2 + sinh^2 under it.
focusing_same_sign(k, length) ==
    IF k.sign = 0 THEN drift(length)
    ELSE [m11 |-> k.c, m12 |-> fdiv(k.s, k.sqrt_k),
          m21 |-> fmul(fneg(k.sqrt_k), k.s), m22 |-> k.c]

\* booster.rs 419-443; k.sign = 0: |k| < 1e-12
focusing(k, length) ==
    IF k.sign = 0 THEN drift(length)
    ELSE IF k.sign > 0
    THEN [m11 |-> k.c, m12 |-> fdiv(k.s, k.sqrt_k),
          m21 |-> fmul(fneg(k.sqrt_k), k.s), m22 |-> k.c]
    ELSE [m11 |-> k.c, m12 |-> fdiv(k.s, k.sqrt_k),
          m21 |-> fmul(k.sqrt_k, k.s), m22 |-> k.c]

\* booster.rs 450-457
multiply(a, b) ==
    [m11 |-> fadd(fmul(a.m11, b.m11), fmul(a.m12, b.m21)),
     m12 |-> fadd(fmul(a.m11, b.m12), fmul(a.m12, b.m22)),
     m21 |-> fadd(fmul(a.m21, b.m11), fmul(a.m22, b.m21)),
     m22 |-> fadd(fmul(a.m21, b.m12), fmul(a.m22, b.m22))]

determinant(a) == fsub(fmul(a.m11, a.m22), fmul(a.m12, a.m21))

\* the gradients of the F and D magnets (booster.rs 823-829, 903-915): at
\* injection, at transition, late in the ramp, and with the gradients at zero
\* (quad_bus_trim = -1); Settings are those that the optics calls are made at
Settings == {"Injection", "Late", "Unpowered"}

k_f(setting, sign) ==
    CASE setting = "Injection" -> KF_Injection(sign)
      [] setting = "Late" -> KF_Late(sign)
      [] setting = "Transition" -> KF_Transition(sign)
      [] OTHER -> ZeroGradient

k_d(setting, sign) ==
    CASE setting = "Injection" -> KD_Injection(sign)
      [] setting = "Late" -> KD_Late(sign)
      [] setting = "Transition" -> KD_Transition(sign)
      [] OTHER -> ZeroGradient

\* booster.rs 834-841: one cell, F . Os . F . D . OL . D
cell_x(setting) ==
    LET mf == focusing(k_f(setting, 1), MAGNET_LENGTH)
        md == focusing(k_d(setting, -1), MAGNET_LENGTH)
    IN  multiply(multiply(multiply(multiply(multiply(mf, drift(SHORT_DRIFT)), mf),
                                   md), drift(LONG_DRIFT)), md)

\* booster.rs 843-846: in the y plane F defocuses and D focuses
cell_y(setting) ==
    LET mf == focusing(k_f(setting, -1), MAGNET_LENGTH)
        md == focusing(k_d(setting, 1), MAGNET_LENGTH)
    IN  multiply(multiply(multiply(multiply(multiply(mf, drift(SHORT_DRIFT)), mf),
                                   md), drift(LONG_DRIFT)), md)

\* booster.rs 842, 846
cos_mu(cell) == fmul(fadd(cell.m11, cell.m22), Round(1, -1))

\* booster.rs 849, 853
stable(cell) == fle(fabs(cos_mu(cell)), FromInt(1))

\* booster.rs 850-851: NUM_SECTIONS * acos(c) / TAU, with acos(c) / TAU taken
\* on the chords through its values 0, 1/6, 1/4, 1/3, 1/2 at c = 1, 1/2, 0,
\* -1/2, -1
tune_of(c) ==
    LET half == Round(1, -1)
        turns == IF fle(half, c)
                 THEN fdiv(fsub(FromInt(1), c), FromInt(3))
                 ELSE IF fle(fneg(half), c)
                 THEN fsub(Round(1, -2), fdiv(c, FromInt(6)))
                 ELSE fsub(half, fdiv(fadd(FromInt(1), c), FromInt(3)))
    IN  fmul(FromInt(NUM_CELLS), turns)

\* booster.rs 822-862, the tunes (the beta functions, the dispersion, the
\* chromaticity and the space-charge shift of 864-897 are not kept)
update_optics_tune(o) ==
    LET cx == cell_x(o.setting)
        cy == cell_y(o.setting)
        tx == IF stable(cx) THEN tune_of(cos_mu(cx)) ELSE o.tune_x
        ty == IF stable(cy) THEN tune_of(cos_mu(cy)) ELSE o.tune_y
        shift == fmul(FromInt(o.trim_quad_sum), TRIM_QUAD_SENSITIVITY)
    IN  [o EXCEPT !.tune_x = fadd(tx, shift),
                  !.tune_y = fsub(ty, shift)]

MaxTrimQuadSum == 1
MaxOpticsUpdates == 3

NoOptics ==
    [op |-> "none", setting |-> "Injection", trim_quad_sum |-> 0,
     tune_x |-> TUNE_X_BARE, tune_y |-> TUNE_Y_BARE, updates |-> 0,
     k |-> ZeroGradient, m |-> identity,
     ramp_turn |-> 0, current_ke_gev |-> KineticEnergy(0)]

\* the quad bus and the trim quadrupoles are set, and the ramp moves on,
\* between two calls of update_optics (booster.rs 1189, 1564, 1570, 803)
OpticsSet ==
    /\ optics.op \in {"none", "update_optics"}
    /\ \E setting \in Settings, sum \in -MaxTrimQuadSum .. MaxTrimQuadSum :
           /\ <<setting, sum>> # <<optics.setting, optics.trim_quad_sum>>
           /\ optics' = [optics EXCEPT !.op = "update_optics",
                                      !.setting = setting,
                                      !.trim_quad_sum = sum]
    /\ UNCHANGED <<current_tab, boosterVars, beamVars, callVars, trackVars,
                   paceVars, subVars, scenarioVars, kickVars, bufVars, scoreVars>>

\* one call of update_optics (booster.rs 1153, 1296, 1368)
OpticsUpdate ==
    /\ optics.op = "update_optics"
    /\ optics.updates < MaxOpticsUpdates
    /\ optics' = [update_optics_tune(optics) EXCEPT !.updates = @ + 1]
    /\ UNCHANGED <<current_tab, boosterVars, beamVars, callVars, trackVars,
                   paceVars, subVars, scenarioVars, kickVars, bufVars, scoreVars>>

\* one call of Matrix2::focusing
CallFocusing ==
    /\ optics.op \in {"none", "focusing"}
    /\ \E k \in GradientSamples :
           /\ k # optics.k \/ optics.op = "none"
           /\ optics' = [optics EXCEPT !.op = "focusing", !.k = k,
                                      !.m = focusing(k, MAGNET_LENGTH)]
    /\ UNCHANGED <<current_tab, boosterVars, beamVars, callVars, trackVars,
                   paceVars, subVars, scenarioVars, kickVars, bufVars, scoreVars>>

\* update_energy_for_turn for the next turn of the ramp (booster.rs 796-800)
EnergyOfNextTurn ==
    /\ optics.op \in {"none", "energy"}
    /\ optics.ramp_turn < TURNS_IN_CYCLE
    /\ optics' = [optics EXCEPT !.op = "energy",
                               !.ramp_turn = @ + 1,
                               !.current_ke_gev = KineticEnergy(optics.ramp_turn + 1)]
    /\ UNCHANGED <<current_tab, boosterVars, beamVars, callVars, trackVars,
                   paceVars, subVars, scenarioVars, kickVars, bufVars, scoreVars>>

OpticsNext == OpticsSet \/ OpticsUpdate \/ CallFocusing \/ EnergyOfNextTurn

(***************************************************************************)
(* BeamGame::apply_element (beam.rs 337-396), horizontal plane.  Positions *)
(* are kept doubled (x2 = 2 * beam_position) and all quantities are whole  *)
(* multiples of one unit, so that the halves of the drifts and the         *)
(* products with an even quadrupole power are whole numbers: on such       *)
(* values the f32 arithmetic of the code is exact.                         *)
(***************************************************************************)
\* beam.rs 270-275: the magnets of a section, in order
MagnetTypeOf(element) ==
    CASE element = 0 -> "FocusQuad"
      [] element = 1 -> "Dipole1"
      [] element = 2 -> "DefocusQuad"
      [] element = 3 -> "Dipole2"
      [] element = 4 -> "VTrim"
      [] OTHER -> "HTrim"

\* beam.rs 342-388; o = [x2, angle], power: magnet.power (for a dipole, the
\* difference magnet.power - DESIGN_DIPOLE_POWER)
apply_element(o, mag_type, power) ==
    LET o1 ==
          CASE mag_type = "FocusQuad" ->
                 [o EXCEPT !.angle = @ - (power * o.x2) \div 2]
            [] mag_type \in {"Dipole1", "Dipole2"} ->
                 [x2 |-> o.x2 + 4 * (o.angle + power), angle |-> o.angle + power]
            [] mag_type = "DefocusQuad" ->
                 [o EXCEPT !.angle = @ + (power * o.x2) \div 2]
            [] mag_type = "HTrim" ->
                 [x2 |-> o.x2 + 2 * (o.angle + power), angle |-> o.angle + power]
            [] OTHER -> o
    IN  [o1 EXCEPT !.x2 = @ + o1.angle]

(***************************************************************************)
(* Two games of BeamGame with the dipoles below the design bend, the       *)
(* quadrupoles and the trims unpowered (beam.rs 270-275), each with the    *)
(* restrictions and the injection target that BeamGame::new draws for it   *)
(* (278-292, 331-332), followed element by element.  Angles are in units   *)
(* of 1e-4, positions doubled as above; losses are in quarters of 1e-4.    *)
(* The vertical plane has no kick: beam_y_position stays at target_y.      *)
(***************************************************************************)
DESIGN_DIPOLE_POWER == 1309
BG_APERTURE == 500000
BG_LOSS_ZONE == 250000
BG_BEAM_SIZE == 100000

\* the dipole powers tried, two below DESIGN_DIPOLE_POWER and the design
\* power itself, and the injection targets drawn (of the range -5.0 .. 5.0)
DipolePowers == {0, 500, DESIGN_DIPOLE_POWER}
Targets == {-40000, 0, 40000}

\* beam.rs 278-292: four restrictions on distinct sections, two horizontal and
\* two vertical, each blocking one side; of the draws of the code, those on
\* four consecutive sections, the horizontal ones blocking one side and the
\* vertical ones the other
restrictions_drawn(s, side) ==
    {[section |-> s % NUM_SECTIONS, axis |-> "x", positive_blocked |-> side],
     [section |-> (s + 1) % NUM_SECTIONS, axis |-> "x", positive_blocked |-> side],
     [section |-> (s + 2) % NUM_SECTIONS, axis |-> "y", positive_blocked |-> ~side],
     [section |-> (s + 3) % NUM_SECTIONS, axis |-> "y", positive_blocked |-> ~side]}

GamesDrawn(power) ==
    {[dipole |-> power, target_x |-> tx, target_y |-> ty,
      restrictions |-> restrictions_drawn(s, side)] :
        tx \in Targets, ty \in {20000}, s \in 0 .. NUM_SECTIONS - 1,
        side \in BOOLEAN}

\* beam.rs 119-122
restriction_check(r, x2, y) ==
    LET val == IF r.axis = "x" THEN x2 ELSE y
    IN  IF r.positive_blocked THEN val > 0 ELSE val < 0

\* beam.rs 649-668: the beam as injected; cell_x2 is the position at the head
\* of the cell the beam is in, outward whether every cell completed so far has
\* left the beam further from the axis than it found it
InjectedRun(game) ==
    [x2 |-> 2 * game.target_x, angle |-> 0, y |-> game.target_y,
     beam_losses |-> 0, beam_section |-> 0, beam_element |-> 0,
     turns_completed |-> 0, beam_completed |-> FALSE, beam_lost |-> FALSE,
     cause |-> "none", cells |-> 0, cell_x2 |-> 2 * game.target_x,
     outward |-> TRUE]

\* beam.rs 409-421: the loss of one step, from the four beam edges
loss_this_step(x2, y) ==
    (IF x2 + BG_BEAM_SIZE > 2 * BG_LOSS_ZONE THEN x2 + BG_BEAM_SIZE - 2 * BG_LOSS_ZONE ELSE 0)
      + (IF x2 - BG_BEAM_SIZE < -2 * BG_LOSS_ZONE
         THEN -(x2 - BG_BEAM_SIZE) - 2 * BG_LOSS_ZONE ELSE 0)
      + (IF 2 * y + BG_BEAM_SIZE > 2 * BG_LOSS_ZONE
         THEN 2 * y + BG_BEAM_SIZE - 2 * BG_LOSS_ZONE ELSE 0)
      + (IF 2 * y - BG_BEAM_SIZE < -2 * BG_LOSS_ZONE
         THEN -(2 * y - BG_BEAM_SIZE) - 2 * BG_LOSS_ZONE ELSE 0)

\* beam.rs 401-477: one element applied, the loss tests, the tracker advanced
run_element(game, r) ==
    LET mag_type == MagnetTypeOf(r.beam_element)
        power == IF mag_type \in {"Dipole1", "Dipole2"}
                 THEN game.dipole - DESIGN_DIPOLE_POWER ELSE 0
        o == apply_element([x2 |-> r.x2, angle |-> r.angle], mag_type, power)
        r1 == [r EXCEPT !.x2 = o.x2, !.angle = o.angle]
        r2 == [r1 EXCEPT !.beam_losses = @ + loss_this_step(o.x2, r.y)]
        wraps == r.beam_element + 1 >= MAGNETS_PER_SECTION
        turn == wraps /\ r.beam_section + 1 >= NUM_SECTIONS
    IN  IF Abs(o.x2) > 2 * BG_APERTURE \/ Abs(r.y) > BG_APERTURE
        THEN [r1 EXCEPT !.beam_lost = TRUE, !.cause = "wall"]
        ELSE IF r2.beam_losses >= 4 * 10000 * BG_MAX_LOSSES
        THEN [r2 EXCEPT !.beam_lost = TRUE, !.cause = "losses"]
        ELSE IF \E rs \in game.restrictions :
                    rs.section = r.beam_section /\ restriction_check(rs, o.x2, r.y)
        THEN [r2 EXCEPT !.beam_lost = TRUE, !.cause = "restriction"]
        ELSE [r2 EXCEPT
                !.beam_element = IF wraps THEN 0 ELSE @ + 1,
                !.beam_section = IF turn THEN 0 ELSE IF wraps THEN @ + 1 ELSE @,
                !.turns_completed = IF turn THEN @ + 1 ELSE @,
                !.beam_completed = turn /\ r.turns_completed + 1 >= GOAL_TURNS,
                !.cells = IF wraps THEN @ + 1 ELSE @,
                !.cell_x2 = IF wraps THEN o.x2 ELSE @,
                !.outward = IF wraps THEN @ /\ Abs(o.x2) > Abs(r.cell_x2) ELSE @]

NoScenario ==
    [injected |-> FALSE,
     game_a |-> CHOOSE g \in GamesDrawn(0) : g.target_x = 0,
     game_b |-> CHOOSE g \in GamesDrawn(0) : g.target_x = 0,
     a |-> InjectedRun([target_x |-> 0, target_y |-> 0]),
     b |-> InjectedRun([target_x |-> 0, target_y |-> 0])]

\* two games are constructed with the same magnet settings and a beam is
\* injected in each (beam.rs 649-668)
ScenarioInject ==
    /\ ~scenario.injected
    /\ \E power \in DipolePowers :
           \E ga \in GamesDrawn(power), gb \in GamesDrawn(power) :
               scenario' = [injected |-> TRUE, game_a |-> ga, game_b |-> gb,
                            a |-> InjectedRun(ga), b |-> InjectedRun(gb)]
    /\ UNCHANGED <<current_tab, boosterVars, beamVars, callVars, trackVars,
                   paceVars, subVars, opticsVars, kickVars, bufVars, scoreVars>>

RunOver(r) == r.beam_lost \/ r.beam_completed

\* each beam that is still running has its next element applied
ScenarioStep ==
    /\ scenario.injected
    /\ ~RunOver(scenario.a) \/ ~RunOver(scenario.b)
    /\ scenario' =
         [scenario EXCEPT
            !.a = IF RunOver(@) THEN @ ELSE run_element(scenario.game_a, @),
            !.b = IF RunOver(@) THEN @ ELSE run_element(scenario.game_b, @)]
    /\ UNCHANGED <<current_tab, boosterVars, beamVars, callVars, trackVars,
                   paceVars, subVars, opticsVars, kickVars, bufVars, scoreVars>>

ScenarioNext == ScenarioInject \/ ScenarioStep

(***************************************************************************)
(* BoosterGame::apply_element (booster.rs 928-983) and the calls at the    *)
(* end of a turn that read the correctors (1152-1155), on a drawn beam.    *)
(* Corrector values are whole numbers; the arithmetic is that of the       *)
(* optics functions above.                                                 *)
(***************************************************************************)
\* booster.rs 682-691: the lattice holds ELEMENTS_PER_CELL elements per cell
lattice_len == NUM_CELLS * ELEMENTS_PER_CELL

\* booster.rs 929-930: the index that apply_element looks up in the lattice
global_idx(g) == g.beam_cell * ELEMENTS_PER_CELL + g.beam_element

\* booster.rs 684-690: the element types of a cell, by index
elem_type(index) ==
    CASE index \in {0, 2} -> "FMagnet"
      [] index = 1 -> "ShortDrift"
      [] index = 4 -> "LongDrift"
      [] OTHER -> "DMagnet"

\* booster.rs 130-139: the package with every corrector at zero
ZeroPackage ==
    [h_trim |-> 0, v_trim |-> 0, trim_quad |-> 0, skew_quad |-> 0,
     sext_a |-> 0, sext_b |-> 0]

\* the packages tried: every corrector at zero, and each of the six at one unit
PackageSamples ==
    {ZeroPackage} \cup {[ZeroPackage EXCEPT ![f] = 1] : f \in DOMAIN ZeroPackage}

\* the packages tried in the cells that the tracker is not in
OtherCellSamples ==
    {ZeroPackage, [ZeroPackage EXCEPT !.trim_quad = 1],
     [ZeroPackage EXCEPT !.sext_a = 1]}

\* booster.rs 902-925
element_matrices(g, index) ==
    CASE elem_type(index) = "FMagnet" ->
           [mx |-> focusing(k_f(g.setting, 1), MAGNET_LENGTH),
            my |-> focusing(k_f(g.setting, -1), MAGNET_LENGTH)]
      [] elem_type(index) = "DMagnet" ->
           [mx |-> focusing(k_d(g.setting, -1), MAGNET_LENGTH),
            my |-> focusing(k_d(g.setting, 1), MAGNET_LENGTH)]
      [] elem_type(index) = "ShortDrift" ->
           [mx |-> drift(SHORT_DRIFT), my |-> drift(SHORT_DRIFT)]
      [] OTHER -> [mx |-> drift(LONG_DRIFT), my |-> drift(LONG_DRIFT)]

\* booster.rs 444-447
matrix_apply(m, x, xp) ==
    [x |-> fadd(fmul(m.m11, x), fmul(m.m12, xp)),
     xp |-> fadd(fmul(m.m21, x), fmul(m.m22, xp))]

\* booster.rs 24, 953-954: DIPOLE_ANGLE and brho_inj / current_brho
DIPOLE_ANGLE == FromBin16(4289)
brho_scale(g) == IF g.setting = "Transition" THEN FromBin16(12451) ELSE FromInt(1)

\* booster.rs 879-886: what update_optics has left in dispersion_max
dispersion_max(g) ==
    IF g.setting = "Transition" THEN FromInt(50) ELSE FromBin16(15441)

\* booster.rs 936-940
disp_kick(g, index) ==
    IF elem_type(index) \in {"FMagnet", "DMagnet"}
    THEN fmul(fmul(dispersion_max(g), g.beam_dp), FromBin16(6554))
    ELSE FromInt(0)

\* booster.rs 958-975: the correctors of the cell, at the long drift
corrector_kicks(g, corr) ==
    LET xp1 == fadd(g.beam_xp, FromInt(corr.h_trim))
        yp1 == fadd(g.beam_yp, FromInt(corr.v_trim))
        xp2 == fsub(xp1, fmul(fmul(FromInt(corr.trim_quad), g.beam_x), FromBin16(66)))
        yp2 == fadd(yp1, fmul(fmul(FromInt(corr.trim_quad), g.beam_y), FromBin16(66)))
        x_kick == fmul(fmul(FromInt(corr.skew_quad), g.beam_y), FromBin16(66))
        y_kick == fmul(fmul(FromInt(corr.skew_quad), g.beam_x), FromBin16(66))
        sext_kick_x == fmul(fmul(fmul(FromInt(corr.sext_a + corr.sext_b), g.beam_x),
                                 g.beam_x), Round(1074, -30))
    IN  [g EXCEPT !.beam_xp = fsub(fadd(xp2, x_kick), sext_kick_x),
                  !.beam_yp = fadd(yp2, y_kick)]

\* booster.rs 977-982; beta_x_max and beta_y_max as BoosterGame::new sets them
\* (736-737): update_optics computes them from the gradients alone (864-877)
beam_size_evolution(g) ==
    LET fmax(a, b) == IF flt(a, b) THEN b ELSE a
        ratio(pos, beta) ==
            fadd(FromInt(1), fmul(FromBin16(655), fdiv(fabs(pos), beta)))
    IN  [g EXCEPT !.beam_sigma_x =
                      fmax(fmul(@, ratio(g.beam_x, FromBin16(2208563))),
                           FromBin16(32768)),
                  !.beam_sigma_y =
                      fmax(fmul(@, ratio(g.beam_y, FromBin16(1336934))),
                           FromBin16(32768))]

\* A variant of apply_element that applies the correctors of the cell at the
\* last magnet of the cell and the dispersion kick at every element; the
\* frame of C36 does not hold of it.
apply_element_misplaced(g) ==
    LET index == g.beam_element
        m == element_matrices(g, index)
        h == matrix_apply(m.mx, fadd(g.beam_x,
                 fmul(fmul(dispersion_max(g), g.beam_dp), FromBin16(6554))),
                 g.beam_xp)
        v == matrix_apply(m.my, g.beam_y, g.beam_yp)
        g1 == [g EXCEPT !.beam_x = h.x, !.beam_xp = h.xp,
                        !.beam_y = v.x, !.beam_yp = v.xp]
        g2 == IF elem_type(index) \in {"FMagnet", "DMagnet"}
              THEN [g1 EXCEPT !.beam_xp =
                       fadd(@, fmul(fmul(g.bend_bus_trim, DIPOLE_ANGLE), brho_scale(g)))]
              ELSE g1
        g3 == IF index = 5 THEN corrector_kicks(g2, g.correctors[g.beam_cell]) ELSE g2
    IN  beam_size_evolution(g3)

\* booster.rs 928-983; each stage is computed once from the stage before it
booster_apply_element(g) ==
    LET index == g.beam_element
        transported(m) ==
            LET h == matrix_apply(m.mx, fadd(g.beam_x, disp_kick(g, index)), g.beam_xp)
                v == matrix_apply(m.my, g.beam_y, g.beam_yp)
            IN  [g EXCEPT !.beam_x = h.x, !.beam_xp = h.xp,
                          !.beam_y = v.x, !.beam_yp = v.xp]
        bent(g1) ==
            IF elem_type(index) \in {"FMagnet", "DMagnet"}
            THEN [g1 EXCEPT !.beam_xp =
                     fadd(@, fmul(fmul(g.bend_bus_trim, DIPOLE_ANGLE), brho_scale(g)))]
            ELSE g1
        corrected(g2) ==
            IF index = 4 THEN corrector_kicks(g2, g.correctors[g.beam_cell]) ELSE g2
    IN  IF global_idx(g) >= lattice_len THEN g
        ELSE CHOOSE r \in
                 {beam_size_evolution(g3) :
                     g3 \in {corrected(g2) :
                         g2 \in {bent(g1) :
                             g1 \in {transported(m) :
                                 m \in {element_matrices(g, index)}}}}} : TRUE

\* the sum of one corrector over the cells (booster.rs 860, 889-890)
RECURSIVE SumOver(_, _, _)
SumOver(packages, field, cells) ==
    IF cells = {} THEN 0
    ELSE LET c == CHOOSE d \in cells : TRUE
         IN  packages[c][field] + SumOver(packages, field, cells \ {c})

\* booster.rs 859-862, 888-893: the chromaticities that update_optics leaves;
\* the tunes are computed once
chromaticity(g) ==
    LET cells == DOMAIN g.correctors
        sext_a_sum == SumOver(g.correctors, "sext_a", cells)
        sext_b_sum == SumOver(g.correctors, "sext_b", cells)
        tunes == {update_optics_tune([setting |-> g.setting,
                      trim_quad_sum |-> SumOver(g.correctors, "trim_quad", cells),
                      tune_x |-> TUNE_X_BARE, tune_y |-> TUNE_Y_BARE])}
    IN  CHOOSE c \in {[x |-> fadd(fneg(t.tune_x), FromInt(sext_a_sum * 2 + sext_b_sum)),
                       y |-> fadd(fneg(t.tune_y), FromInt(sext_b_sum * 2 - sext_a_sum))] :
                          t \in tunes} : TRUE

\* booster.rs 1039-1040
chrom_quality(g) ==
    CHOOSE q \in {fadd(fabs(fsub(fabs(c.x), FromInt(7))),
                       fabs(fsub(fabs(c.y), FromInt(7)))) : c \in {chromaticity(g)}} : TRUE

\* booster.rs 1152-1155: update_optics and handle_transition at the end of a
\* turn, as far as they write the transverse beam, the losses and the
\* intensity (1047-1054); the transition window (1035-1036) is the setting
\* "Transition" with transition_crossed false
turn_end_transition(g) ==
    IF g.setting = "Transition" /\ ~g.transition_crossed
    THEN LET crossed(cq) ==
                 LET blowup == fadd(FromInt(1), fmul(cq, FromBin16(3277)))
                     keep == fsub(FromInt(1), fmul(cq, FromBin16(655)))
                 IN  [g EXCEPT !.beam_sigma_x = fmul(@, blowup),
                               !.beam_sigma_y = fmul(@, blowup),
                               !.beam_losses = fadd(@, fmul(cq, FromInt(2))),
                               !.beam_intensity =
                                   fmul(@, IF flt(keep, FromBin16(32768))
                                           THEN FromBin16(32768) ELSE keep)]
         IN  CHOOSE r \in {crossed(cq) : cq \in {chrom_quality(g)}} : TRUE
    ELSE g

\* booster.rs 1068-1163: the sub-step that applies the element under the
\* tracker, as far as it writes the beam; the tracker moves on and the end of
\* the turn is reached after the last element of the last cell
element_sub_step(g) ==
    LET last == g.beam_cell = NUM_CELLS - 1 /\ g.beam_element = ELEMENTS_PER_CELL - 1
    IN  CHOOSE r \in {IF last THEN turn_end_transition(g1) ELSE g1 :
                         g1 \in {booster_apply_element(g)}} : TRUE

\* the beam of a game
BeamOf(g) ==
    [f \in {"beam_x", "beam_xp", "beam_y", "beam_yp", "beam_sigma_x",
            "beam_sigma_y", "beam_losses", "beam_intensity"} |-> g[f]]

\* the beams and the settings drawn
BeamSamples ==
    {[beam_x |-> FromInt(2), beam_xp |-> Round(1, -1), beam_y |-> FromInt(-1),
      beam_yp |-> FromInt(0)],
     [beam_x |-> FromInt(-3), beam_xp |-> FromInt(0), beam_y |-> FromInt(4),
      beam_yp |-> FromInt(-1)]}
MomentumSamples == {FromInt(0), Round(1, -8)}
BendTrimSamples == {FromInt(0), Round(1, -6)}
KickSettings == {"Injection", "Transition"}

KickGame(cell, element, b, dp, bend, setting, own, others) ==
    [beam_cell |-> cell, beam_element |-> element,
     beam_x |-> b.beam_x, beam_xp |-> b.beam_xp,
     beam_y |-> b.beam_y, beam_yp |-> b.beam_yp,
     beam_sigma_x |-> FromInt(3), beam_sigma_y |-> FromInt(3),
     beam_dp |-> dp, beam_losses |-> FromInt(0), beam_intensity |-> FromInt(1),
     bend_bus_trim |-> bend, setting |-> setting, transition_crossed |-> FALSE,
     correctors |-> [c \in 0 .. NUM_CELLS - 1 |-> IF c = cell THEN own ELSE others]]

NoKick ==
    [drawn |-> FALSE, applied |-> FALSE,
     before |-> KickGame(0, 0, CHOOSE b \in BeamSamples : TRUE, FromInt(0),
                         FromInt(0), "Injection", ZeroPackage, ZeroPackage),
     after |-> KickGame(0, 0, CHOOSE b \in BeamSamples : TRUE, FromInt(0),
                        FromInt(0), "Injection", ZeroPackage, ZeroPackage)]

\* a game is drawn: the tracker, the beam, the bus trim, the energy and the
\* correctors of the cell under the tracker and of the other cells
KickDraw ==
    /\ ~kick.drawn
    /\ \E cell \in 0 .. NUM_CELLS - 1, element \in 0 .. ELEMENTS_PER_CELL - 1,
          b \in BeamSamples, dp \in MomentumSamples, bend \in BendTrimSamples,
          setting \in KickSettings, own \in PackageSamples,
          others \in OtherCellSamples :
           LET g == KickGame(cell, element, b, dp, bend, setting, own, others)
           IN  kick' = [drawn |-> TRUE, applied |-> FALSE, before |-> g,
                        after |-> g]
    /\ UNCHANGED <<current_tab, boosterVars, beamVars, callVars, trackVars,
                   paceVars, subVars, opticsVars, scenarioVars, bufVars, scoreVars>>

\* the sub-step that applies the element under the tracker
KickSubStep ==
    /\ kick.drawn /\ ~kick.applied
    /\ kick' = [kick EXCEPT !.applied = TRUE,
                            !.after = element_sub_step(kick.before)]
    /\ UNCHANGED <<current_tab, boosterVars, beamVars, callVars, trackVars,
                   paceVars, subVars, opticsVars, scenarioVars, bufVars, scoreVars>>

KickNext == KickDraw \/ KickSubStep

(***************************************************************************)
(* The display buffers (booster.rs 1010-1015, 1120-1145, 1233-1247;        *)
(* beam.rs 456-467): a beam of each game followed with its buffers.  An    *)
(* entry of the trail is the cell completed and the turn it was completed  *)
(* in; an entry of the other buffers is the turn, or the tick, that        *)
(* appended it.                                                            *)
(***************************************************************************)
\* booster.rs 764-773
NewBuffers ==
    [tick |-> 0, trail |-> <<>>, turn_positions |-> <<>>,
     x_xp_history |-> <<>>, y_yp_history |-> <<>>,
     phi_history |-> <<>>, de_history |-> <<>>,
     pos_history |-> <<>>, size_history |-> <<>>,
     y_pos_history |-> <<>>, y_size_history |-> <<>>]

\* booster.rs 1221-1249: update() with the display history of lines 1233-1247;
\* zone is where the first element applied in the tick leaves the beam
update_buffers(g, speed, zone) ==
    IF g.beam_lost \/ g.phase = "Extraction" THEN g
    ELSE LET g1 == [g EXCEPT !.tick = @ + 1]
             o == [first |-> zone, rest |-> 0, escaped |-> FALSE, chrom |-> 0]
             g2 == run_steps(g1, steps_per_tick(speed), o, TRUE)
         IN  IF ~g1.beam_running THEN g1
             ELSE IF g2.tick % 3 = 0
             THEN Push(Push(Push(Push(g2, "pos_history", g2.tick, MAX_HISTORY),
                                 "size_history", g2.tick, MAX_HISTORY),
                            "y_pos_history", g2.tick, MAX_HISTORY),
                       "y_size_history", g2.tick, MAX_HISTORY)
             ELSE g2

NoBuffers ==
    [game |-> "None", speed |-> "Slow", g |-> NewGame @@ NewBuffers,
     b |-> NewBeamTrack @@ [trail |-> <<>>, turn_positions |-> <<>>]]

\* booster.rs 1346-1379: the beam of BoosterGame is injected; the buffers that
\* the injection clears are empty in a new game
BufInjectBooster ==
    /\ bufs.game = "None"
    /\ \E speed \in {"Slow", "Fast"} :
           bufs' = [bufs EXCEPT !.game = "Booster", !.speed = speed,
                                !.g = [@ EXCEPT !.beam_running = TRUE,
                                                !.phase = "Injection"]]
    /\ UNCHANGED <<current_tab, boosterVars, beamVars, callVars, trackVars,
                   paceVars, subVars, opticsVars, scenarioVars, kickVars, scoreVars>>

\* one tick of BoosterGame::update
BufTick ==
    /\ bufs.game = "Booster"
    /\ ~bufs.g.beam_lost /\ bufs.g.phase # "Extraction"
    /\ \E zone \in {0, 2} :
           bufs' = [bufs EXCEPT !.g = update_buffers(@, bufs.speed, zone)]
    /\ UNCHANGED <<current_tab, boosterVars, beamVars, callVars, trackVars,
                   paceVars, subVars, opticsVars, scenarioVars, kickVars, scoreVars>>

\* beam.rs 649-668: the beam of BeamGame is injected
BufInjectBeam ==
    /\ bufs.game = "None"
    /\ bufs' = [bufs EXCEPT !.game = "Beam"]
    /\ UNCHANGED <<current_tab, boosterVars, beamVars, callVars, trackVars,
                   paceVars, subVars, opticsVars, scenarioVars, kickVars, scoreVars>>

\* one call of BeamGame::advance_beam (beam.rs 398-478)
BufBeamStep ==
    /\ bufs.game = "Beam"
    /\ ~bufs.b.beam_lost /\ ~bufs.b.beam_completed
    /\ \E zone \in {0, 2} :
           bufs' = [bufs EXCEPT !.b = bg_advance_beam(@, zone, FALSE)]
    /\ UNCHANGED <<current_tab, boosterVars, beamVars, callVars, trackVars,
                   paceVars, subVars, opticsVars, scenarioVars, kickVars, scoreVars>>

BufNext == BufInjectBooster \/ BufTick \/ BufInjectBeam \/ BufBeamStep

(***************************************************************************)
(* The high-score table (scores.rs) and the name prompt of App (app.rs     *)
(* 108-159, 276-306).  A name is a sequence of characters.                 *)
(***************************************************************************)
\* bounds: the scores tried, and the characters typed into one name prompt
MaxScore == 1
MaxTyped == 1
\* bound: the number of times a game ends
MaxEpisodes == 4

\* scores.rs 5, 6, 8
NUM_GAMES == 8
SCORES_PER_GAME == 3
NAME_LEN == 9

\* app.rs 14
MAX_NAME_LEN == 9

\* scores.rs 25-30
ScoreEntry_empty == [name |-> <<>>, score |-> 0]

\* scores.rs 45-51: the table and the latches before the file is read
EmptyTable ==
    [game \in 0 .. NUM_GAMES - 1 |-> [i \in 1 .. SCORES_PER_GAME |-> ScoreEntry_empty]]

\* scores.rs 118-126
qualifies(scores, game_idx, score) ==
    IF game_idx >= NUM_GAMES \/ score = 0 THEN FALSE
    ELSE \E i \in 1 .. SCORES_PER_GAME : score > scores[game_idx][i].score

\* scores.rs 133
truncate(name) == SubSeq(name, 1, Min(Len(name), NAME_LEN))

\* A variant of submit that inserts above the first entry that is not
\* greater; it inserts scores that do not qualify.
submit_on_ties(scores, game_idx, name, score) ==
    IF game_idx >= NUM_GAMES \/ score = 0
    THEN [scores |-> scores, returned |-> FALSE]
    ELSE LET slots == scores[game_idx]
             found == {i \in 1 .. SCORES_PER_GAME : score >= slots[i].score}
         IN  IF found = {} THEN [scores |-> scores, returned |-> FALSE]
             ELSE LET pos == CHOOSE i \in found : \A j \in found : i <= j
                  IN  [scores |-> [scores EXCEPT ![game_idx] =
                                      [i \in 1 .. SCORES_PER_GAME |->
                                          IF i < pos THEN slots[i]
                                          ELSE IF i = pos
                                          THEN [name |-> truncate(name), score |-> score]
                                          ELSE slots[i - 1]]],
                       returned |-> TRUE]

\* scores.rs 129-155: the table after the call, and what the call returns
submit(scores, game_idx, name, score) ==
    IF game_idx >= NUM_GAMES \/ score = 0
    THEN [scores |-> scores, returned |-> FALSE]
    ELSE LET slots == scores[game_idx]
             found == {i \in 1 .. SCORES_PER_GAME : score > slots[i].score}
         IN  IF found = {} THEN [scores |-> scores, returned |-> FALSE]
             ELSE LET insert_at == CHOOSE i \in found : \A j \in found : i <= j
                  IN  [scores |-> [scores EXCEPT ![game_idx] =
                                      [i \in 1 .. SCORES_PER_GAME |->
                                          IF i < insert_at THEN slots[i]
                                          ELSE IF i = insert_at
                                          THEN [name |-> truncate(name), score |-> score]
                                          ELSE slots[i - 1]]],
                       returned |-> TRUE]

\* the games played: Asteroids and Booster (scores.rs 14-16), whose
\* is_game_over and get_score are asteroids.rs 816-817 and booster.rs 1788-1799
PlayedGames == {5, 6}

\* a game that is not over
LiveGame == [over |-> FALSE, score |-> 0]

NoCall == [game_idx |-> 0, name |-> <<>>, score |-> 0, returned |-> FALSE,
           qualified |-> FALSE, before |-> EmptyTable]

\* app.rs 86-105 and scores.rs 45-51, with no score file to read; prompts and
\* submits count the name prompts opened and the submit calls made for a game
\* since it was last reset, episodes the games ended; last is the last direct
\* call of submit, calls their number
NoScores ==
    [scores |-> EmptyTable,
     submitted |-> [game \in 0 .. NUM_GAMES - 1 |-> FALSE],
     entering_name |-> FALSE, name_buffer |-> <<>>,
     name_game_idx |-> 0, name_score |-> 0,
     games |-> [game \in PlayedGames |-> LiveGame],
     prompts |-> [game \in PlayedGames |-> 0],
     submits |-> [game \in PlayedGames |-> 0],
     episodes |-> 0, calls |-> 0, last |-> NoCall]

\* scores.rs 166-169
was_submitted(a, game_idx) ==
    IF game_idx >= NUM_GAMES THEN FALSE ELSE a.submitted[game_idx]

\* A variant of mark_submitted that leaves the latch as it is.
mark_submitted_dropped(a, game_idx) == a

\* scores.rs 172-176
mark_submitted(a, game_idx) ==
    IF game_idx < NUM_GAMES THEN [a EXCEPT !.submitted[game_idx] = TRUE] ELSE a

\* scores.rs 179-183
clear_submitted(a, game_idx) ==
    IF game_idx < NUM_GAMES THEN [a EXCEPT !.submitted[game_idx] = FALSE] ELSE a

\* app.rs 140-158: the loop of check_submit_scores from game idx on; the
\* games that are not played are never over
RECURSIVE check_submit_from(_, _)
check_submit_from(a, idx) ==
    IF idx >= NUM_GAMES THEN a
    ELSE LET played == idx \in PlayedGames
             game_over == played /\ a.games[idx].over
             score == IF played THEN a.games[idx].score ELSE 0
         IN  IF game_over /\ score > 0 /\ ~was_submitted(a, idx)
             THEN IF qualifies(a.scores, idx, score)
                  THEN mark_submitted([a EXCEPT !.entering_name = TRUE,
                                                !.name_buffer = <<>>,
                                                !.name_game_idx = idx,
                                                !.name_score = score,
                                                !.prompts[idx] = @ + 1], idx)
                  ELSE check_submit_from(mark_submitted(a, idx), idx + 1)
             ELSE IF ~game_over /\ was_submitted(a, idx)
             THEN check_submit_from(clear_submitted(a, idx), idx + 1)
             ELSE check_submit_from(a, idx + 1)

\* app.rs 129-159
check_submit_scores(a) == check_submit_from(a, 0)

\* app.rs 108-127: a tick; the game of the current tab is updated, and its
\* update may end it with some score, then the scores are checked
AppTick ==
    /\ ~hs.entering_name
    /\ \/ hs' = check_submit_scores(hs)
       \/ \E game \in PlayedGames, score \in 0 .. MaxScore :
              /\ ~hs.games[game].over
              /\ hs.episodes < MaxEpisodes
              /\ hs' = check_submit_scores(
                           [hs EXCEPT !.games[game] = [over |-> TRUE, score |-> score],
                                      !.episodes = @ + 1])
    /\ UNCHANGED <<current_tab, boosterVars, beamVars, callVars, trackVars,
                   paceVars, subVars, opticsVars, scenarioVars, kickVars, bufVars>>

\* app.rs 276-306, the name of line 280-284
entered_name(a) ==
    IF a.name_buffer = <<>> THEN <<"?", "?", "?">> ELSE a.name_buffer

\* app.rs 169-171, 276-306: a key while the name prompt is open
handle_name_input(a, key) ==
    CASE key = "Enter" ->
           [a EXCEPT !.scores = submit(a.scores, a.name_game_idx,
                                       entered_name(a), a.name_score).scores,
                     !.submits[a.name_game_idx] = @ + 1,
                     !.entering_name = FALSE, !.name_buffer = <<>>]
      [] key = "Esc" ->
           [a EXCEPT !.scores = submit(a.scores, a.name_game_idx,
                                       <<"?", "?", "?">>, a.name_score).scores,
                     !.submits[a.name_game_idx] = @ + 1,
                     !.entering_name = FALSE, !.name_buffer = <<>>]
      [] key = "Backspace" ->
           [a EXCEPT !.name_buffer =
                         IF @ = <<>> THEN @ ELSE SubSeq(@, 1, Len(@) - 1)]
      [] OTHER ->
           IF Len(a.name_buffer) < Min(MaxTyped, MAX_NAME_LEN)
           THEN [a EXCEPT !.name_buffer = Append(@, "A")]
           ELSE a

AppNameKey ==
    /\ hs.entering_name
    /\ \E key \in {"Enter", "Esc", "Backspace", "Char"} :
           /\ hs' = handle_name_input(hs, key)
           /\ hs' # hs
    /\ UNCHANGED <<current_tab, boosterVars, beamVars, callVars, trackVars,
                   paceVars, subVars, opticsVars, scenarioVars, kickVars, bufVars>>

\* app.rs 262-273: a key forwarded to a game that is over resets it
\* (booster.rs 1330, 1338-1342; asteroids.rs 679, 686-689)
AppResetKey ==
    /\ ~hs.entering_name
    /\ \E game \in PlayedGames :
           /\ hs.games[game].over
           /\ hs' = [hs EXCEPT !.games[game] = LiveGame,
                               !.prompts[game] = 0,
                               !.submits[game] = 0]
    /\ UNCHANGED <<current_tab, boosterVars, beamVars, callVars, trackVars,
                   paceVars, subVars, opticsVars, scenarioVars, kickVars, bufVars>>

AppNext == AppTick \/ AppNameKey \/ AppResetKey

\* the names, the games and the number of direct calls of submit tried
NameSamples == {<<"A">>, <<"B", "C", "D", "E", "F", "G", "H", "I", "J", "K">>}
GamesCalled == {6, 7, NUM_GAMES}
MaxCalls == 4

\* one call of submit
CallSubmit ==
    /\ hs.calls < MaxCalls
    /\ \E game_idx \in GamesCalled, name \in NameSamples, score \in 0 .. MaxScore + 1 :
           LET r == submit(hs.scores, game_idx, name, score)
           IN  hs' = [hs EXCEPT !.scores = r.scores,
                                !.calls = @ + 1,
                                !.last = [game_idx |-> game_idx, name |-> name,
                                          score |-> score, returned |-> r.returned,
                                          qualified |-> qualifies(hs.scores, game_idx,
                                                                  score),
                                          before |-> hs.scores]]
    /\ UNCHANGED <<current_tab, boosterVars, beamVars, callVars, trackVars,
                   paceVars, subVars, opticsVars, scenarioVars, kickVars, bufVars>>

TableNext == CallSubmit

\* bounds of the tracked runs: the first cell of the 3-bump (scaled from cell 5
\* of 24), the trim steps, the quadrupole powers besides 0 and the starting
\* orbits tried
BumpStartCell == 1
MaxTrimStep == 2
QuadPower == 2
MaxStartOrbit == 1

TrackedBump == [size |-> 3, start_section |-> BumpStartCell]

\* the power of the magnet (sec, element) in a run: the quadrupoles at kf and
\* kd, the dipoles at DESIGN_DIPOLE_POWER (no bend error), the vertical trims
\* at 0, the horizontal trims at d times the coefficient of the bump, if any
PowerOf(sec, element, kf, kd, d, with_bump) ==
    CASE MagnetTypeOf(element) = "FocusQuad" -> kf
      [] MagnetTypeOf(element) = "DefocusQuad" -> kd
      [] MagnetTypeOf(element) = "HTrim" /\ with_bump ->
            LET sc == section_coefficients(TrackedBump)
                hit == {i \in 1 .. Len(sc) : sc[i][1] = sec}
            IN  IF hit = {} THEN 0 ELSE d * sc[CHOOSE i \in hit : TRUE][2]
      [] OTHER -> 0

NoTrack ==
    [kf |-> 0, kd |-> 0, d |-> 0, sec |-> 0, element |-> 0,
     bumped |-> [x2 |-> 0, angle |-> 0], plain |-> [x2 |-> 0, angle |-> 0],
     displaced |-> FALSE, left |-> TRUE]

\* the runs start at the head of the first cell of the bump, both beams on the
\* same orbit
TrackInit ==
    \E kf \in {0, QuadPower}, kd \in {0, QuadPower}, d \in 1 .. MaxTrimStep,
       x0 \in 0 .. MaxStartOrbit :
        tr = [kf |-> kf, kd |-> kd, d |-> d,
              sec |-> BumpStartCell, element |-> 0,
              bumped |-> [x2 |-> 2 * x0, angle |-> 0],
              plain |-> [x2 |-> 2 * x0, angle |-> 0],
              displaced |-> FALSE, left |-> FALSE]

\* beam.rs 401-403 and 451-462: apply the element the beams are at, in both
\* runs, and move to the next one; tracking ends when the last trim of the
\* bump has been applied
TrackElement ==
    /\ ~tr.left
    /\ LET b == apply_element(tr.bumped, MagnetTypeOf(tr.element),
                              PowerOf(tr.sec, tr.element, tr.kf, tr.kd, tr.d, TRUE))
           p == apply_element(tr.plain, MagnetTypeOf(tr.element),
                              PowerOf(tr.sec, tr.element, tr.kf, tr.kd, tr.d, FALSE))
           last == tr.element + 1 >= MAGNETS_PER_SECTION
           out == last /\ tr.sec = (BumpStartCell + 2) % NUM_SECTIONS
       IN  tr' = [tr EXCEPT !.bumped = b, !.plain = p,
                            !.element = IF last THEN 0 ELSE @ + 1,
                            !.sec = IF last THEN (@ + 1) % NUM_SECTIONS ELSE @,
                            !.displaced = @ \/ (~out /\ b.x2 # p.x2),
                            !.left = out]
    /\ UNCHANGED <<current_tab, boosterVars, beamVars, callVars, paceVars, subVars, opticsVars, scenarioVars, kickVars, bufVars, scoreVars>>

BumpInit ==
    /\ current_tab = "Home"
    /\ panicked = FALSE
    /\ pace = NoPace
    /\ sub = NoSub /\ optics = NoOptics /\ scenario = NoScenario
    /\ kick = NoKick /\ bufs = NoBuffers /\ hs = NoScores
    /\ BoosterInit
    /\ BeamInit
    /\ TrackInit

BumpNext == TrackElement

SpecBump == BumpInit /\ [][BumpNext]_vars

\* the keys that App::on_key forwards to BoosterGame::handle_input, and the
\* tick that App::on_tick forwards to BoosterGame::update (app.rs 108-127).
\* The speed key is not among them: sim_speed keeps its construction value.
BoosterNext ==
    \/ Update
    \/ KeyR
    \/ KeyP
    \/ KeySpace
    \/ KeyI
    \/ KeyEnter
    \/ KeyEsc
    \/ KeyRight

\* app.rs 89, 216-217: the application opens on the Home tab; the player opens
\* one of the two games from it
SelectTab ==
    /\ current_tab = "Home"
    /\ current_tab' \in {"Booster", "Beam"}
    /\ UNCHANGED <<boosterVars, beamVars, callVars, trackVars, paceVars, subVars, opticsVars, scenarioVars, kickVars, bufVars, scoreVars>>

Init ==
    /\ current_tab = "Home"
    /\ panicked = FALSE
    /\ tr = NoTrack
    /\ pace = NoPace
    /\ sub = NoSub /\ optics = NoOptics /\ scenario = NoScenario
    /\ kick = NoKick /\ bufs = NoBuffers /\ hs = NoScores
    /\ BoosterInit
    /\ BeamInit

Next ==
    \/ SelectTab
    \/ (current_tab = "Booster" /\ BoosterNext
          /\ UNCHANGED <<current_tab, beamVars, callVars, trackVars, paceVars, subVars, opticsVars, scenarioVars, kickVars, bufVars, scoreVars>>)
    \/ (current_tab = "Beam" /\ BeamNext
          /\ UNCHANGED <<current_tab, boosterVars, callVars, trackVars, paceVars, subVars, opticsVars, scenarioVars, kickVars, bufVars, scoreVars>>)

Spec == Init /\ [][Next]_vars

\* a session of the application in which only the Beam tab is played: the
\* steps of Next without those of the Booster tab
BeamTabNext ==
    \/ SelectTab
    \/ (current_tab = "Beam" /\ BeamNext
          /\ UNCHANGED <<current_tab, boosterVars, callVars, trackVars, paceVars, subVars, opticsVars, scenarioVars, kickVars, bufVars, scoreVars>>)

SpecBeam == Init /\ [][BeamTabNext]_vars

SpeedInit ==
    /\ current_tab = "Home"
    /\ panicked = FALSE
    /\ tr = NoTrack
    /\ BoosterInit
    /\ BeamInit
    /\ PaceInit
    /\ sub = NoSub /\ optics = NoOptics /\ scenario = NoScenario
    /\ kick = NoKick /\ bufs = NoBuffers /\ hs = NoScores

SpecSpeed == SpeedInit /\ [][PaceNext]_vars

SubNext ==
    \/ SelectTab
    \/ SubInjectBooster
    \/ SubInjectBeam
    \/ BoosterSubStep
    \/ BeamSubStep

SpecSubStep == Init /\ [][SubNext]_vars

SpecOptics == Init /\ [][OpticsNext]_vars

SpecScenario == Init /\ [][ScenarioNext]_vars

SpecKick == Init /\ [][KickNext]_vars

SpecBuffers == Init /\ [][BufNext]_vars

SpecScores == Init /\ [][AppNext]_vars

SpecTable == Init /\ [][TableNext]_vars

(***************************************************************************)
(* The adjust functions called on their own, with any index.               *)
(***************************************************************************)
\* Vec indexing (booster.rs 1185, beam.rs 583-586): an index that is not below
\* the length panics
index_in_bounds(len, idx) == idx < len

\* bounds of the calls: indexes up to LastIndexTried past the last valid one,
\* and the magnets whose setpoints the calls of adjust_ramp_power move
LastIndexTried == 1
CalledMagnets == {0, TOTAL_MAGNETS - 1}

\* a call adjust_corrector(cell, corr_type, delta) on the game as constructed
CallAdjustCorrector ==
    \E cell \in 0 .. NUM_CELLS - 1 + LastIndexTried,
       corr_type \in {"HTrim", "VTrim"}, delta \in {-1, 1} :
        /\ current_tab = "Booster"
        /\ ~panicked
        /\ IF index_in_bounds(NUM_CELLS, cell)
           THEN /\ Abs(correctors[cell][corr_type] + delta) <= MaxTrim
                /\ correctors' = adjust_corrector(cell, corr_type, delta)
                /\ UNCHANGED panicked
           ELSE /\ panicked' = TRUE
                /\ UNCHANGED correctors
        /\ UNCHANGED <<gameVars, paused, input_mode, selected_cell,
                       selected_corrector, sim_speed, current_tab, beamVars,
                       trackVars, paceVars, subVars, opticsVars, scenarioVars, kickVars, bufVars, scoreVars>>

\* a call adjust_ramp_power(magnet_idx, delta) on the game as constructed
CallAdjustRampPower ==
    \E magnet_idx \in CalledMagnets \cup
                       (TOTAL_MAGNETS .. TOTAL_MAGNETS - 1 + LastIndexTried),
       delta \in {-InitialSpeed, InitialSpeed} :
        /\ current_tab = "Beam"
        /\ ~panicked
        /\ Counted
        /\ IF index_in_bounds(TOTAL_MAGNETS, magnet_idx)
           THEN /\ SetTable(adjust_ramp_power(Table, selected_ramp, magnet_idx, delta))
                /\ UNCHANGED panicked
           ELSE /\ panicked' = TRUE
                /\ UNCHANGED bgTable
        /\ UNCHANGED <<bgNav, bgRun, current_tab, boosterVars, trackVars, paceVars, subVars, opticsVars, scenarioVars, kickVars, bufVars, scoreVars>>

CallNext ==
    \/ SelectTab
    \/ CallAdjustCorrector
    \/ CallAdjustRampPower

SpecCalls == Init /\ [][CallNext]_vars

TypeOK ==
    /\ phase \in Phases
    /\ beam_cell \in 0 .. NUM_CELLS - 1
    /\ beam_element \in 0 .. ELEMENTS_PER_CELL - 1
    /\ beam_progress \in {0, 35, 70}
    /\ ramp_turn \in 0 .. TURNS_IN_CYCLE

(***************************************************************************)
(* Properties of the ramp table of BeamGame.                               *)
(***************************************************************************)

\* C1: after any sequence of ramp-table commands from the flat table (single
\* adjust, zero, bump adjust, bump zero, copy of a section to all, checkpoint
\* selection, reset), every magnet's ramp has |ramp[i] - ramp[i+1]| <=
\* MAX_RAMP_DELTA for every pair of adjacent checkpoints.
C1_RampDelta ==
    \A m \in Magnets : \A i \in 0 .. NUM_RAMPS - 2 :
        Abs(ramp_powers[m][i] - ramp_powers[m][i + 1]) <= MAX_RAMP_DELTA

\* the first magnet raised by single adjusts and a trim lowered by a bump, each
\* a full MAX_RAMP_DELTA away from its next checkpoint
C1_Witness ==
    /\ ramp_powers[0][0] - ramp_powers[0][1] = MAX_RAMP_DELTA
    /\ \E m \in Magnets :
          /\ m % MAGNETS_PER_SECTION = 5
          /\ ramp_powers[m][0] - ramp_powers[m][1] = -MAX_RAMP_DELTA

\* the window that the neighbours of checkpoint i leave a setpoint of magnet m
WindowLow(m, i) ==
    IF i = 0 THEN ramp_powers[m][i + 1] - MAX_RAMP_DELTA
    ELSE IF i = NUM_RAMPS - 1 THEN ramp_powers[m][i - 1] - MAX_RAMP_DELTA
    ELSE Max(ramp_powers[m][i - 1], ramp_powers[m][i + 1]) - MAX_RAMP_DELTA

WindowHigh(m, i) ==
    IF i = 0 THEN ramp_powers[m][i + 1] + MAX_RAMP_DELTA
    ELSE IF i = NUM_RAMPS - 1 THEN ramp_powers[m][i - 1] + MAX_RAMP_DELTA
    ELSE Min(ramp_powers[m][i - 1], ramp_powers[m][i + 1]) + MAX_RAMP_DELTA

\* C2: an edit of the setpoint at checkpoint i is never rejected: the value
\* stored is the request clamped into the intersection of the windows of the
\* neighbours that exist, the request itself when it lies inside and the
\* nearest bound of the intersection when it lies outside.
C2_StoredIsClamped ==
    last_request.magnet >= 0 =>
        LET m == last_request.magnet
            i == last_request.ramp
            v == last_request.value
        IN  /\ WindowLow(m, i) <= WindowHigh(m, i)
            /\ ramp_powers[m][i] =
                  IF v < WindowLow(m, i) THEN WindowLow(m, i)
                  ELSE IF v > WindowHigh(m, i) THEN WindowHigh(m, i)
                  ELSE v

\* a request below the window of a raised next checkpoint, stored at the
\* window's lower bound
C2_Witness ==
    /\ last_request.magnet >= 0
    /\ last_request.ramp = 0
    /\ ramp_powers[last_request.magnet][1] = InitialSpeed
    /\ last_request.value = -InitialSpeed
    /\ ramp_powers[last_request.magnet][0] = InitialSpeed - MAX_RAMP_DELTA

(***************************************************************************)
(* Properties of BoosterGame.                                              *)
(***************************************************************************)

\* C3: within one beam lifetime beam_losses never decreases from one step to the
\* next (soft, longitudinal and transition losses only add to it), and the
\* step that injects the beam leaves beam_losses at 0.  A lifetime ends with
\* the step that brings the phase back to Setup.
LossesStep ==
    IF phase' = "Injection" /\ phase # "Injection"
    THEN beam_losses' = 0
    ELSE phase' = "Setup" \/ beam_losses' >= beam_losses

C3_LossesMonotone == [][LossesStep]_vars

\* a running beam past its first turn that has taken a soft loss and a
\* longitudinal loss
C3_Witness ==
    /\ beam_running /\ ~beam_lost
    /\ phase = "EarlyRamp"
    /\ beam_losses = SoftLoss + LONGITUDINAL_LOSS

\* C4: Extraction and Lost are terminal: a step taken in either of them (a tick
\* or any key, the pause key included) leaves the phase, the beam, the energy,
\* the tracker position, the losses and the pause flag as they are, unless it
\* is a reset, which leads to Setup.
TerminalStep ==
    phase \in {"Extraction", "Lost"} =>
        \/ UNCHANGED <<gameVars, paused>>
        \/ (reset /\ phase' = "Setup")

C4_TerminalFrozen == [][TerminalStep]_vars

\* a beam lost on the ramp after a corrector was moved, the game not paused
C4_Witness ==
    /\ phase = "Lost" /\ beam_lost
    /\ ramp_turn > 0
    /\ correctors[0].HTrim # 0
    /\ ~paused

\* what BoosterGame::new gives the fields that C5 names
ConstructionValues ==
    /\ phase' = "Setup"
    /\ beam_running' = FALSE /\ beam_lost' = FALSE
    /\ beam_x' = 0 /\ beam_intensity' = 1000
    /\ current_ke_gev' = E_INJECTION_GEV
    /\ current_gamma' = kinetic_to_gamma(E_INJECTION_GEV)
    /\ beam_cell' = 0 /\ beam_element' = 0 /\ beam_progress' = 0
    /\ beam_losses' = 0
    /\ ramp_turn' = 0 /\ turns_completed' = 0
    /\ transition_crossed' = FALSE
    /\ paused' = FALSE

\* the step of the reset key in the Booster tab and in the Beam tab
ResetStep ==
    /\ (current_tab = "Booster" /\ input_mode = "None" /\ KeyR) =>
           /\ ConstructionValues
           /\ correctors' = correctors
           /\ best_turns' = best_turns
    /\ (current_tab = "Beam" /\ BeamKeyR) =>
           /\ bg_beam_running' = FALSE /\ bg_beam_lost' = FALSE
           /\ beam_completed' = FALSE
           /\ bg_turns_completed' = 0
           /\ bg_paused' = FALSE
           /\ ramp_powers' = ramp_powers
           /\ bg_best_turns' = bg_best_turns

\* C5: a reset, in any state, gives the beam, the energy, the tracker, the
\* losses, the turn counters, transition_crossed and the pause flag their
\* construction values and the phase Setup, and leaves every corrector value,
\* every ramp-table setpoint and best_turns as they were.
C5_Reset == [][ResetStep]_vars

\* the game back in Setup after a beam that completed turns, with a corrector
\* off its construction value
C5_Witness ==
    /\ phase = "Setup" /\ ~beam_running
    /\ best_turns > 0 /\ turns_completed = 0
    /\ correctors[0].HTrim # 0

\* C6: is_game_over() is true exactly when the phase is Extraction or Lost.
C6_GameOverIffTerminal ==
    is_game_over <=> phase \in {"Extraction", "Lost"}

\* C7: the phase is Extraction only when a turn completion has brought the
\* ramp turn count to TURNS_IN_CYCLE, and the beam has then stopped running.
C7_ExtractionAtRampEnd ==
    phase = "Extraction" => (ramp_turn = TURNS_IN_CYCLE /\ ~beam_running)

PhaseRank(p) ==
    CASE p = "Setup" -> 0
      [] p = "Injection" -> 1
      [] p = "EarlyRamp" -> 2
      [] p = "PreTransition" -> 3
      [] p = "Transition" -> 4
      [] p = "PostTransition" -> 5
      [] p = "Extraction" -> 6
      [] OTHER -> 7

\* C9: within one beam lifetime the phase only moves forward along Setup,
\* Injection, EarlyRamp, PreTransition, Transition, PostTransition, Extraction;
\* Lost is entered only from a phase in which the beam is running; Setup is
\* re-entered only by a reset.
PhaseStep ==
    phase' # phase =>
        \/ (phase' = "Lost" /\ beam_running /\ phase # "Extraction")
        \/ (phase' = "Setup" /\ reset)
        \/ (/\ phase' \notin {"Lost", "Setup"}
            /\ phase # "Lost"
            /\ PhaseRank(phase') > PhaseRank(phase))

C9_PhaseOrder == [][PhaseStep]_vars

\* a beam that has gone through every phase of the ramp up to PostTransition
C9_Witness ==
    /\ phase = "PostTransition"
    /\ transition_crossed
    /\ beam_running /\ ~beam_lost

\* the phase that C10 gives a gamma ratio r (units of 1e-4) and a turn count
PhaseTable(r, turn) ==
    IF r < 8500 THEN "EarlyRamp"
    ELSE IF r < 9700 THEN "PreTransition"
    ELSE IF r < 10300 THEN "Transition"
    ELSE IF TURNS_IN_CYCLE - turn > EXTRACTION_MARGIN THEN "PostTransition"
    ELSE "Extraction"

\* C10: once a turn has been completed and the beam is not lost, the phase is
\* the one the table gives the gamma ratio and the turn count: EarlyRamp below
\* 0.85, PreTransition from 0.85 to 0.97, Transition from 0.97 to 1.03, and
\* from 1.03 PostTransition or Extraction by the turns that remain.
C10_PhaseFromGamma ==
    (beam_running /\ ramp_turn >= 1 /\ phase # "Lost")
        => phase = PhaseTable(GammaRatio(current_gamma), ramp_turn)

\* the beam at the start of a turn inside the transition band
C10_Witness ==
    /\ phase = "Transition"
    /\ beam_running /\ ~beam_lost
    /\ beam_cell = 0 /\ beam_element = 0 /\ beam_progress = 0
    /\ GammaRatio(current_gamma) >= 9700 /\ GammaRatio(current_gamma) < 10300

\* C11: the transition-crossing perturbation is evaluated once per beam
\* lifetime: over all the turns completed while 0.99 < gamma / gamma_t < 1.01
\* it is applied exactly one time, so at no moment has it been applied twice.
C11_PerturbationOnce ==
    transition_kicks <= 1

\* a step seen from the transition_crossed flag
CrossedStep ==
    /\ transition_crossed =>
           \A chrom \in {0, ChromBad} : handle_transition(Game, chrom) = Game
    /\ (transition_crossed /\ transition_crossed') =>
           transition_kicks' = transition_kicks
    /\ (~transition_crossed /\ transition_crossed') =>
           /\ ramp_turn' = ramp_turn + 1
           /\ transition_kicks' = transition_kicks + 1
    /\ (transition_crossed /\ ~transition_crossed') =>
           \/ (reset /\ phase' = "Setup")
           \/ (phase' = "Injection" /\ ramp_turn' = 0)

TrackerIndex == beam_cell * ELEMENTS_PER_CELL + beam_element

\* a step seen from the loss checks of advance_beam
LossCheckStep ==
    /\ (beam_running /\ ~beam_lost /\ TrackerIndex # 0) =>
           (beam_x # 2 /\ beam_losses < MAX_LOSSES)
    /\ (beam_running /\ ~beam_lost /\ ramp_turn > 0) => beam_x # 2
    /\ (~beam_lost /\ beam_lost') =>
           LET ring == NUM_CELLS * ELEMENTS_PER_CELL
               advanced == (TrackerIndex' - TrackerIndex + ring) % ring
           IN  /\ phase' = "Lost"
               /\ beam_progress' = 0
               /\ advanced < ElementsInTick(steps_per_tick(sim_speed))
               /\ beam_x' = 2 \/ (beam_x' = 1 /\ beam_losses' >= MAX_LOSSES)
                             \/ (beam_x' = 0 /\ beam_losses >= MAX_LOSSES)
               /\ (beam_x' = 2 /\ advanced = 0) => beam_losses' = beam_losses

\* C13: after an element is applied, a beam past the aperture is Lost in that
\* sub-step and the tracker stays on that element; otherwise the soft losses
\* are added and a beam whose losses have reached MAX_LOSSES is Lost in that
\* sub-step; no further sub-step of the tick runs on a lost beam.
C13_LostInSubStep == [][LossCheckStep]_vars

\* a beam lost to accumulated soft losses on the second element of a tick
C13_Witness ==
    /\ beam_lost /\ phase = "Lost"
    /\ beam_x = 1 /\ beam_losses >= MAX_LOSSES
    /\ beam_progress = 0
    /\ beam_element = 1 /\ beam_cell = 0 /\ ramp_turn = 0

\* a step in which the bucket test of advance_longitudinal finds the beam outside
EscapeStep ==
    bucket_escapes' > bucket_escapes => phase' = "Lost"

\* C14: a longitudinal bucket escape moves the phase to Lost: a turn completion
\* that finds the longitudinal coordinates outside the RF bucket ends in Lost.
C14_EscapeIsLost == [][EscapeStep]_vars

ListedCoefficients(s) ==
    CASE s = 3 -> <<1, -2, 1>>
      [] s = 4 -> <<1, -1, -1, 1>>
      [] s = 5 -> <<1, -2, 2, -2, 1>>

RECURSIVE SumOfCoefficients(_, _)
SumOfCoefficients(sc, k) ==
    IF k > Len(sc) THEN 0 ELSE sc[k][2] + SumOfCoefficients(sc, k + 1)

\* C16: for every bump size s in {3, 4, 5} and every start cell c, the bump
\* assigns exactly s coefficients to the consecutive cells c, c+1, ..., c+s-1
\* modulo the ring size, they are [1,-2,1], [1,-1,-1,1], [1,-2,2,-2,1], and
\* they sum to zero; a bump in the game has one of these sizes and a start
\* cell of the ring.
C16_BumpCoefficients ==
    /\ \A s \in {3, 4, 5} : \A c \in 0 .. NUM_SECTIONS - 1 :
          LET sc == section_coefficients([size |-> s, start_section |-> c])
          IN  /\ Len(sc) = s
              /\ \A i \in 1 .. s :
                    /\ sc[i][1] = (c + i - 1) % NUM_SECTIONS
                    /\ sc[i][2] = ListedCoefficients(s)[i]
              /\ SumOfCoefficients(sc, 1) = 0
    /\ bump.size # 0 =>
          /\ bump.size \in {3, 4, 5}
          /\ bump.start_section \in 0 .. NUM_SECTIONS - 1

\* a 5-bump that starts in the last cell of the ring and wraps
C16_Witness ==
    /\ bump.size = 5
    /\ bump.start_section = NUM_SECTIONS - 1
    /\ section_coefficients(bump)[2][1] = 0

\* the step of a bump adjust key (Up: dir = 1, Down: dir = -1) in the Beam tab
IsBumpAdjust(dir) ==
    /\ current_tab = "Beam"
    /\ ~BeamIgnored
    /\ bump.size # 0
    /\ BeamKeyUpDown(dir)

\* the coefficient the bump gives magnet m: that of its cell when m is a trim
\* (element 4 or 5) of a cell of the bump, 0 otherwise
BumpCoefficientOf(m) ==
    LET sec == m \div MAGNETS_PER_SECTION
        i == ((sec - bump.start_section + NUM_SECTIONS) % NUM_SECTIONS) + 1
    IN  IF m % MAGNETS_PER_SECTION \in {4, 5} /\ i <= bump.size
        THEN ListedCoefficients(bump.size)[i]
        ELSE 0

\* the request of the bump for magnet m at the selected checkpoint
BumpRequest(m, dir) ==
    ramp_powers[m][selected_ramp] + dir * adjust_speed * BumpCoefficientOf(m)

ClampToWindow(m, i, v) ==
    IF v < WindowLow(m, i) THEN WindowLow(m, i)
    ELSE IF v > WindowHigh(m, i) THEN WindowHigh(m, i)
    ELSE v

RECURSIVE SumOfChanges(_)
SumOfChanges(m) ==
    IF m >= TOTAL_MAGNETS THEN 0
    ELSE (ramp_powers'[m][selected_ramp] - ramp_powers[m][selected_ramp])
           + SumOfChanges(m + 1)

ExactBumpStep ==
    \A dir \in {1, -1} :
        IsBumpAdjust(dir) =>
            /\ \A m \in Magnets : \A i \in Ramps :
                  ramp_powers'[m][i] =
                      IF i = selected_ramp THEN BumpRequest(m, dir)
                      ELSE ramp_powers[m][i]
            /\ SumOfChanges(0) = 0

ClampedBumpStep ==
    \A dir \in {1, -1} :
        IsBumpAdjust(dir) =>
            /\ \A m \in Magnets : \A i \in Ramps :
                  ramp_powers'[m][i] =
                      IF i = selected_ramp
                      THEN ClampToWindow(m, i, BumpRequest(m, dir))
                      ELSE ramp_powers[m][i]
            /\ (\A m \in Magnets :
                    BumpRequest(m, dir) =
                        ClampToWindow(m, selected_ramp, BumpRequest(m, dir)))
                  => SumOfChanges(0) = 0

C18_ClosedBump ==
    tr.left => (tr.bumped.angle = tr.plain.angle /\ tr.displaced)

\* a step that puts a beam at the head of the ring in the phase Injection
IsInjection ==
    /\ phase' = "Injection"
    /\ TrackerIndex' = 0 /\ beam_progress' = 0
    /\ gameVars' # gameVars

InjectionStep ==
    /\ IsInjection =>
           /\ ~beam_running /\ ~paused /\ ~Terminal
           /\ Game = [NewGame EXCEPT !.best_turns = best_turns]
           /\ beam_running' /\ ~beam_lost'
           /\ beam_x' \in Zones
           /\ beam_intensity' = 1000
           /\ beam_losses' = 0
           /\ ramp_turn' = 0 /\ turns_completed' = 0
           /\ transition_crossed' = FALSE
           /\ current_ke_gev' = E_INJECTION_GEV
           /\ current_gamma' = kinetic_to_gamma(E_INJECTION_GEV)
           /\ beam_cell' = 0 /\ beam_element' = 0
    /\ (bg_beam_running' /\ ~bg_beam_running) =>
           /\ ~bg_paused /\ ~bg_beam_lost /\ ~beam_completed
           /\ bg_turns_completed' = 0
           /\ ~bg_beam_lost' /\ ~beam_completed'

IsTrackingTick ==
    /\ current_tab = "Beam"
    /\ bg_beam_running /\ ~bg_paused /\ ~BeamTerminal
    /\ BeamUpdate

TrackingStep ==
    IsTrackingTick =>
        \A m \in Magnets :
            magnet_power'[m] =
                ramp_powers[m][IF bg_turns_completed < 9 THEN bg_turns_completed
                               ELSE 9]

IsSelectRamp ==
    /\ current_tab = "Beam"
    /\ ~BeamIgnored
    /\ BeamKeyDigit

SelectRampStep ==
    IsSelectRamp =>
        /\ \A m \in Magnets : magnet_power'[m] = ramp_powers[m][selected_ramp']
        /\ ramp_powers' = ramp_powers

\* C21: immediately after the selection of checkpoint i, the displayed power of
\* every magnet is its setpoint at checkpoint i, and the selection changes no
\* setpoint.
C21_SelectSyncsDisplay == [][SelectRampStep]_vars

\* checkpoint 0 selected again after an edit at another checkpoint: the display
\* of the edited magnet is back at its setpoint of checkpoint 0
C21_Witness ==
    /\ current_tab = "Beam"
    /\ selected_ramp = 0
    /\ last_request = NoRequest
    /\ ramp_powers[selected][0] = 0
    /\ \E i \in Ramps : ramp_powers[selected][i] # 0
    /\ magnet_power[selected] = 0

\* a step taken while the game of the open tab is paused: a tick or a key
PausedStep ==
    /\ (current_tab = "Booster" /\ paused) =>
           \/ UNCHANGED <<gameVars, controlVars, input_mode>>
           \/ (KeyR /\ ~paused')
    /\ (current_tab = "Beam" /\ bg_paused) =>
           \/ UNCHANGED <<bgTable, bgNav, bg_beam_running, bg_beam_lost,
                          beam_completed, bg_turns_completed, bg_best_turns>>
           \/ (BeamKeyR /\ ~bg_paused')

\* C22: while the game is paused, a tick changes no simulation state and every
\* command but reset and the pause key is ignored: a step taken in a paused
\* game either is a reset or leaves the beam, the tracker, the energy, the
\* losses, the phase, the turn counters, the correctors and the ramp table as
\* they are (the pause key changes the pause flag only, so that the game
\* resumes from the state at which the pause began).
C22_PausedFrozen == [][PausedStep]_vars

\* the Booster paused with the beam on its way round the ring
C22_Witness ==
    /\ current_tab = "Booster"
    /\ paused
    /\ beam_running
    /\ TrackerIndex # 0

\* C23: the speed only groups the sub-steps into ticks: of one beam (same
\* start, same correctors, hence the same physics) followed at two speeds, the
\* game (beam, tracker, energy, losses, transition flag, phase) is the same
\* whenever the two runs have executed the same number of sub-steps.
C23_SpeedOnlyPaces ==
    \A a, b \in Speeds :
        pace.runs[a].done = pace.runs[b].done => pace.runs[a].g = pace.runs[b].g

\* the Slow and the Fast run level after the same sub-steps, with the Normal
\* run ahead of them, a turn completed inside the transition window
C23_Witness ==
    /\ pace.runs["Slow"].done = pace.runs["Fast"].done
    /\ pace.runs["Slow"].done < pace.runs["Normal"].done
    /\ pace.runs["Slow"].g.ramp_turn > pace.start
    /\ pace.runs["Slow"].g.transition_kicks > 0
    /\ pace.runs["Slow"].g.beam_losses > 0

\* where the k-th element applied since the injection leaves the beam that is
\* followed sub-step by sub-step
ZoneOfElement(k) ==
    IF k = sub.p.hard THEN 2 ELSE IF k \in sub.p.soft THEN 1 ELSE 0

\* a sub-step of BoosterGame: g before it, h after it
BoosterSubStepOK(g, h) ==
    LET i == g.beam_cell * ELEMENTS_PER_CELL + g.beam_element
        j == h.beam_cell * ELEMENTS_PER_CELL + h.beam_element
        ring == NUM_CELLS * ELEMENTS_PER_CELL
    IN  IF g.beam_progress + PROGRESS_STEP < 100
        THEN h = [g EXCEPT !.beam_progress = @ + PROGRESS_STEP]
        ELSE /\ h.beam_progress = 0
             /\ h.beam_x = ZoneOfElement((g.ramp_turn - sub.p.start) * ring + i)
             /\ IF h.beam_lost
                THEN j = i /\ h.ramp_turn = g.ramp_turn
                ELSE /\ j = (i + 1) % ring
                     /\ h.ramp_turn = g.ramp_turn + (IF i = ring - 1 THEN 1 ELSE 0)

\* a sub-step of BeamGame: b before it, c after it
BeamSubStepOK(b, c) ==
    LET i == b.beam_section * MAGNETS_PER_SECTION + b.beam_element
        j == c.beam_section * MAGNETS_PER_SECTION + c.beam_element
    IN  IF b.beam_progress + BG_PROGRESS_STEP < 100
        THEN c = [b EXCEPT !.beam_progress = @ + BG_PROGRESS_STEP]
        ELSE /\ c.beam_progress = 0
             /\ c.beam_x = ZoneOfElement(b.turns_completed * TOTAL_MAGNETS + i)
             /\ IF c.beam_lost
                THEN j = i /\ c.turns_completed = b.turns_completed
                ELSE /\ j = (i + 1) % TOTAL_MAGNETS
                     /\ c.turns_completed =
                            b.turns_completed + (IF i = TOTAL_MAGNETS - 1 THEN 1 ELSE 0)

SubStepOK ==
    sub'.done = sub.done + 1 =>
        /\ sub.game = "Booster" => BoosterSubStepOK(sub.g, sub'.g)
        /\ sub.game = "Beam" => BeamSubStepOK(sub.b, sub'.b)

\* C24: a sub-step in which progress stays below 1 changes progress only; a
\* sub-step in which it reaches 1 sets progress to 0, applies the element at
\* the tracker's (cell, element) and no other, and, unless the beam is lost in
\* it, moves the tracker to the next element of the ring, from the last
\* element of the last cell to element 0 of cell 0.
C24_SubStep == [][SubStepOK]_vars

\* the beam of the Booster past the last element of the last cell, back at
\* element 0 of cell 0
C24_Witness ==
    /\ sub.game = "Booster"
    /\ sub.g.ramp_turn = sub.p.start + 1
    /\ sub.g.beam_cell = 0 /\ sub.g.beam_element = 0
    /\ sub.g.beam_progress = 0
    /\ ~sub.g.beam_lost

\* the four functions of a turn completion and the extraction test, in the
\* order of booster.rs 1152-1158
TurnCalls ==
    <<"update_energy_for_turn", "update_optics", "advance_longitudinal",
      "handle_transition", "check_extraction">>

TurnCallsStep ==
    BoosterSubStep =>
        IF sub'.g.ramp_turn # sub.g.ramp_turn
        THEN /\ sub'.calls = TurnCalls
             /\ sub'.g.ramp_turn = sub.g.ramp_turn + 1
             /\ sub'.g.current_ke_gev = KineticEnergy(sub'.g.ramp_turn)
             /\ sub'.g.transition_kicks - sub.g.transition_kicks
                  = (IF ~sub.g.transition_crossed
                        /\ GammaRatio(sub'.g.current_gamma) > 9900
                        /\ GammaRatio(sub'.g.current_gamma) < 10100
                     THEN 1 ELSE 0)
        ELSE /\ sub'.calls = <<>>
             /\ sub'.g.current_ke_gev = sub.g.current_ke_gev
             /\ sub'.g.phase \in {sub.g.phase, "Lost"}
             /\ sub'.g.transition_kicks = sub.g.transition_kicks
             /\ sub'.g.bucket_escapes = sub.g.bucket_escapes

\* C25: a sub-step that completes a turn calls the energy update, the optics
\* update, the longitudinal integration and the transition handler once each,
\* in that order, and tests the extraction condition after them (the
\* transition handler acts on the energy of the new turn); a sub-step that
\* completes no turn calls none of them.
C25_TurnCalls == [][TurnCallsStep]_vars

\* a turn completed inside the transition window: the handler has acted on
\* the energy of the new turn
C25_Witness ==
    /\ sub.game = "Booster"
    /\ sub.calls = TurnCalls
    /\ sub.g.ramp_turn = FirstKickTurn
    /\ sub.g.transition_kicks = 1

UnstableKeepsTune ==
    OpticsUpdate =>
        /\ ~stable(cell_x(optics.setting)) => optics'.tune_x = optics.tune_x
        /\ ~stable(cell_y(optics.setting)) => optics'.tune_y = optics.tune_y

\* C26: when update_optics finds the cell matrix of a plane unstable
\* (|trace / 2| > 1), the tune of that plane after the call is its tune before
\* the call, whatever the correctors are set to.
C26_UnstableKeepsTune == [][UnstableKeepsTune]_vars

DriftChainKeepsTune ==
    OpticsUpdate /\ optics.setting = "Unpowered" =>
        /\ \A sg \in {-1, 1} :
               /\ focusing(k_f(optics.setting, sg), MAGNET_LENGTH) = drift(MAGNET_LENGTH)
               /\ focusing(k_d(optics.setting, sg), MAGNET_LENGTH) = drift(MAGNET_LENGTH)
        /\ cell_x(optics.setting).m11 = FromInt(1)
        /\ cell_x(optics.setting).m21 = FromInt(0)
        /\ cell_x(optics.setting).m22 = FromInt(1)
        /\ cell_y(optics.setting) = cell_x(optics.setting)
        /\ optics'.tune_x = optics.tune_x
        /\ optics'.tune_y = optics.tune_y

EnergyTolerance == 1

EnergyEndPoints ==
    /\ optics.ramp_turn = 0 => optics.current_ke_gev = E_INJECTION_GEV
    /\ optics.ramp_turn = TURNS_IN_CYCLE =>
           Abs(optics.current_ke_gev - E_EXTRACTION_GEV) <= EnergyTolerance

EnergyNotDecreasing ==
    EnergyOfNextTurn => optics'.current_ke_gev >= optics.current_ke_gev

\* C28: the kinetic energy of turn 0 is the injection energy, that of turn
\* TURNS_IN_CYCLE is the extraction energy within the tolerance, and from each
\* turn to the next, over turns 0 .. TURNS_IN_CYCLE, it does not decrease.
C28_EnergyRamp == []EnergyEndPoints /\ [][EnergyNotDecreasing]_vars

\* the energy of the last turn of the ramp has been computed
C28_Witness ==
    /\ optics.op = "energy"
    /\ optics.ramp_turn = TURNS_IN_CYCLE
    /\ optics.current_ke_gev > E_INJECTION_GEV

\* sixteen units in the last place of 1.0
DeterminantTolerance == Round(1, 4 - MantissaBits)

DeterminantIsOne ==
    fle(fabs(fsub(determinant(optics.m), FromInt(1))), DeterminantTolerance)

ModeratePhase(k) == k.sign >= 0 \/ fle(fmul(k.c, k.c), FromInt(4))

RunAsClaimed(r) ==
    /\ r.outward
    /\ ~r.beam_completed
    /\ r.beam_lost => r.cause = "wall"

\* C30: with the trims at zero and the dipoles below the design bend, every
\* cell leaves the beam further from the axis than it found it, the beam is
\* lost at the hard aperture, and in two games with the same settings it is
\* lost after the same number of cells.
C30_DriftToWall ==
    scenario.injected /\ scenario.game_a.dipole < DESIGN_DIPOLE_POWER =>
        /\ RunAsClaimed(scenario.a)
        /\ RunAsClaimed(scenario.b)
        /\ scenario.a.beam_lost /\ scenario.b.beam_lost =>
               scenario.a.cells = scenario.b.cells

\* C31: with the dipoles at the design bend and the trims and quadrupoles at
\* zero, the injected beam is not lost before it has completed a full turn.
C31_DesignOrbitTurn ==
    scenario.injected /\ scenario.game_a.dipole = DESIGN_DIPOLE_POWER =>
        (scenario.a.beam_lost => scenario.a.turns_completed >= 1)


(***************************************************************************)
(* Properties of the tracker and the outcome of BoosterGame.               *)
(***************************************************************************)

\* the tracker of a game points into the ring
TrackerInRange(g) ==
    /\ g.beam_cell \in 0 .. NUM_CELLS - 1
    /\ g.beam_element \in 0 .. ELEMENTS_PER_CELL - 1
    /\ g.beam_progress >= 0 /\ g.beam_progress < 100
    /\ global_idx(g) < lattice_len

\* C32: in every reachable state the tracker of BoosterGame is in range: the
\* cell index in 0 .. N-1, the element index in 0 .. 5, the progress in [0, 1);
\* so it is before every sub-step of the coming tick, and the element that
\* apply_element looks up is an element of the lattice.
C32_TrackerInRange ==
    /\ TrackerInRange(Game)
    /\ \A n \in 0 .. steps_per_tick(sim_speed) :
           \A o \in TickOutcomes(steps_per_tick(sim_speed)) :
               TrackerInRange(run_steps(Game, n, o, TRUE))

\* the tracker in the last cell of the ring on a later turn, before a tick
\* that takes it over the end of the ring
C32_Witness ==
    /\ beam_running /\ ~beam_lost /\ ~paused
    /\ beam_cell = NUM_CELLS - 1 /\ beam_element >= ELEMENTS_PER_CELL - 2
    /\ beam_progress > 0
    /\ turns_completed >= 1
    /\ \E o \in TickOutcomes(steps_per_tick(sim_speed)) :
           run_steps(Game, steps_per_tick(sim_speed), o, TRUE).beam_cell = 0


\* the flag and the phase of a game agree on the loss of the beam
LostAgrees(g) == g.beam_lost <=> g.phase = "Lost"

\* C33: beam_lost is true exactly when the phase is Lost, in every reachable
\* state and after every sub-step of the coming tick: no phase written at a
\* turn completion replaces Lost.
C33_LostAgrees ==
    /\ LostAgrees(Game)
    /\ \A n \in 0 .. steps_per_tick(sim_speed) :
           \A o \in TickOutcomes(steps_per_tick(sim_speed)) :
               LostAgrees(run_steps(Game, n, o, TRUE))

\* a beam lost on the first element after a turn completion has set the phase
C33_Witness ==
    /\ beam_lost /\ phase = "Lost"
    /\ ramp_turn >= 1 /\ beam_cell = 0 /\ beam_element = 0


\* C34: the phase is Extraction only when the energy ramp has completed, the
\* ramp turn count having reached TURNS_IN_CYCLE and the kinetic energy the
\* extraction energy; the beam is not taken as extracted on an earlier turn.
C34_ExtractionRampDone ==
    phase = "Extraction" =>
        ramp_turn >= TURNS_IN_CYCLE /\ current_ke_gev >= E_EXTRACTION_GEV

\* C35: the game does not end in Extraction with beam_losses at or above
\* MAX_LOSSES: a beam whose losses have reached the threshold, by soft loss,
\* longitudinal loss or transition loss, ends Lost.
C35_NoExtractionOverLosses ==
    phase = "Extraction" => beam_losses < MAX_LOSSES


(***************************************************************************)
(* Properties of BoosterGame::apply_element.                               *)
(***************************************************************************)

\* the games that differ from g in the correctors of one cell other than
\* the cell whose long drift g is about to apply
OtherCorrectors(g) ==
    {[g EXCEPT !.correctors[c] = p] :
        c \in {d \in DOMAIN g.correctors :
                  g.beam_element # 4 \/ d # g.beam_cell},
        p \in PackageSamples}

\* the games that differ from g in the momentum offset of the beam
OtherMomenta(g) == {[g EXCEPT !.beam_dp = dp] : dp \in MomentumSamples}

TransitionTurnEnd(g) ==
    /\ g.beam_cell = NUM_CELLS - 1 /\ g.beam_element = ELEMENTS_PER_CELL - 1
    /\ g.setting = "Transition" /\ ~g.transition_crossed

LastOf(n, cap) == [i \in 1 .. Min(n, cap) |-> n - Min(n, cap) + i]

\* the last cells completed of a beam that has completed n cells of a ring of
\* size cells, at most cap of them
LastCells(n, size, cap) ==
    [i \in 1 .. Min(n, cap) |->
        [cell |-> (n - Min(n, cap) + i - 1) % size,
         turn |-> (n - Min(n, cap) + i - 1) \div size]]

C38_SubmitOncePerEpisode ==
    [][\A game \in PlayedGames :
          /\ hs'.prompts[game] <= 1
          /\ hs'.submits[game] <= hs'.prompts[game]
          /\ (hs'.games[game].over /\ hs.games[game].over)
                 => /\ hs'.prompts[game] >= hs.prompts[game]
                    /\ hs'.submits[game] >= hs.submits[game]
          /\ (hs.submitted[game] /\ ~hs'.submitted[game])
                 => (~hs.games[game].over /\ ~hs'.games[game].over)]_vars

\* Both games are over and each was prompted for and submitted once; the
\* prompt of Booster was opened by a tick that passed over Asteroids, over and
\* already submitted; later ticks have left both alone.
C38_Witness ==
    /\ ~hs.entering_name
    /\ hs.name_game_idx = 6
    /\ \A game \in PlayedGames :
           /\ hs.games[game].over
           /\ hs.submitted[game]
           /\ hs.prompts[game] = 1
           /\ hs.submits[game] = 1
           /\ \E i \in 1 .. SCORES_PER_GAME :
                  hs.scores[game][i].score = hs.games[game].score


\* the slots of one game after a score that qualifies is put below the
\* entries that are not lower, the entries below it moving down one slot
Inserted(slots, name, score) ==
    LET kept == Cardinality({i \in 1 .. SCORES_PER_GAME : slots[i].score >= score})
    IN  [i \in 1 .. SCORES_PER_GAME |->
            IF i <= kept THEN slots[i]
            ELSE IF i = kept + 1
            THEN [name |-> [c \in 1 .. Min(Len(name), NAME_LEN) |-> name[c]],
                  score |-> score]
            ELSE slots[i - 1]]

\* C39: from the empty table, after any sequence of submit calls the three
\* slots of every game are in non-increasing order of score; the last call
\* returned true exactly when qualifies held before it, that is when the game
\* exists, the score is positive and some stored score of the game is lower;
\* it then inserted the score, moving the lower entries down and dropping the
\* lowest, and otherwise left the table unchanged.
C39_SubmitKeepsOrder ==
    /\ \A game \in 0 .. NUM_GAMES - 1 : \A i \in 1 .. SCORES_PER_GAME - 1 :
           hs.scores[game][i].score >= hs.scores[game][i + 1].score
    /\ hs.calls > 0 =>
           LET call == hs.last
               would == /\ call.game_idx < NUM_GAMES
                        /\ call.score > 0
                        /\ \E i \in 1 .. SCORES_PER_GAME :
                               call.score > call.before[call.game_idx][i].score
           IN  /\ call.returned = call.qualified
               /\ call.qualified = would
               /\ hs.scores =
                      IF would
                      THEN [call.before EXCEPT ![call.game_idx] =
                               Inserted(@, call.name, call.score)]
                      ELSE call.before

\* A score was inserted into the middle slot of the full table of Beam under a
\* name of ten characters, and the lowest entry was dropped.
C39_Witness ==
    /\ hs.calls > 0
    /\ hs.last.returned
    /\ hs.last.game_idx = 7
    /\ Len(hs.last.name) > NAME_LEN
    /\ hs.last.before[7][SCORES_PER_GAME].score > 0
    /\ hs.scores[7][2].score = hs.last.score
    /\ Len(hs.scores[7][2].name) = NAME_LEN
    /\ hs.scores[7][1] = hs.last.before[7][1]
    /\ hs.scores[7][3] = hs.last.before[7][2]

====
